---- MODULE Spec2Model ----
(***************************************************************************)
(* Lottie frame renderer: the per-animation SharedState (a ring of four    *)
(* frame slots driven by one atomic counter) and the operations the        *)
(* background renderer and the consumer (main) thread perform on it.       *)
(* Source: Telegram/SourceFiles/lottie/lottie_frame_renderer.cpp           *)
(***************************************************************************)
EXTENDS Integers, Sequences, FiniteSets, TLC

VARIABLES
    state,      \* the SharedState object
    fatal,      \* an Assert / Expects / Unexpected has terminated the process
    lastPoll,   \* the polls of nextFrameDisplayTime since the last
                \* addTimelineDelay call: the last timestamp returned, and
                \* whether a poll returned a larger one than the poll before
    bg,         \* background thread inside renderNextFrame (interleaved runs)
    cs,         \* consumer thread inside one of its calls (interleaved runs)
    states,     \* the SharedState objects handed to the FrameRenderer
    renderer,   \* the FrameRendererObject: _entries and _queued
    queue,      \* the closures posted to the FrameRendererObject's queue
    mainQueue,  \* the closures posted to the main thread by crl::on_main
    alive,      \* the players that are not destroyed
    issued,     \* per state, the facade calls its player has issued so far
    last,       \* the closure the renderer's queue ran last, and what it did
    lastMain,   \* the closure the main thread ran last, and what it did
    lastPaint   \* the last frame the player asked for to paint it: the
                \* request, the slot before the call and what was returned

\* The variables of the FrameRenderer runs.
rvars ==
    <<states, renderer, queue, mainQueue, alive, issued, last, lastMain>>

vars ==
    <<state, fatal, lastPoll, bg, cs, states, renderer, queue, mainQueue,
      alive, issued, last, lastMain, lastPaint>>

----------------------------------------------------------------------------
(* Bounds of the model.                                                    *)

\* renderNextFrame is not called once _frameIndex has reached this value.
MaxFrameIndex == 5
\* addTimelineDelay is not called once _delay has reached this value.
MaxDelay == 1
\* addTimelineDelay is not called once _skippedFrames has reached this value.
MaxSkipped == 1
\* In the interleaved runs renderNextFrame is not entered once _frameIndex
\* has reached this value.
InterleavedMaxFrameIndex == 5
\* The scenario run of 30 frames at 30 fps stops at this _frameIndex.
ScenarioMaxFrameIndex == 33
\* In the FrameRenderer runs a player does not call markFrameShown once the
\* state's counter has reached this value.
RendererMaxCounter == 2
\* In the FrameRenderer runs the facade is not called while this many
\* closures wait on the renderer's queue.
MaxQueue == 2
\* In the FrameRenderer runs a player does not call markFrameShown while
\* this many notifications wait on the main thread.
MaxMainQueue == 1

----------------------------------------------------------------------------
(* Constants of the program.                                               *)

\* lottie_frame_renderer.h: the ring has four slots (the switches have 8 cases).
kFramesCount == 4
\* lottie_frame_renderer.h: the counter before start().
kCounterUninitialized == -1
\* lottie_common.h: numeric_limits<crl::time>::min(), scaled to the model.
kTimeUnknown == -1000000
\* lottie_frame_renderer.h: numeric_limits<crl::time>::max(), scaled.
kFrameDisplayTimeAlreadyDone == 1000000
\* lottie_frame_renderer.h: Frame::displayed of a slot never rendered into.
kDisplayedInitial == -1
\* lottie_common.h
kMaxSize == 3096
kMaxFrameRate == 120
kMaxFramesCount == 600

Slots == 0 .. (kFramesCount - 1)

\* C++ integer division truncates toward zero.
CDiv(a, b) ==
    IF a >= 0 THEN a \div b ELSE -((-a) \div b)

NoOwner == "none"
NoColor == "none"

----------------------------------------------------------------------------
(* Sizes, requests, images.                                                *)

MkSize(w, h) == [w |-> w, h |-> h]

\* QSize::isEmpty
SizeIsEmpty(sz) == sz.w < 1 \/ sz.h < 1

\* QSize::scaled(box, Qt::KeepAspectRatio)
SizeScaled(sz, box) ==
    IF sz.w = 0 \/ sz.h = 0 THEN box
    ELSE LET rw == CDiv(box.h * sz.w, sz.h)
         IN  IF rw <= box.w THEN MkSize(rw, box.h)
             ELSE MkSize(box.w, CDiv(box.w * sz.h, sz.w))

Max(a, b) == IF a >= b THEN a ELSE b

\* FrameRequest::size(original) of lottie_common.h
RequestSize(request, original) ==
    LET result == SizeScaled(original, request.box)
    IN  MkSize(Max(result.w, 1), Max(result.h, 1))

MkRequest(w, h, colored) == [box |-> MkSize(w, h), colored |-> colored]

EmptyRequest == MkRequest(0, 0, NoColor)

\* A QImage: null, or the animation frame `frame` drawn at w x h.
NullImage ==
    [isNull |-> TRUE, w |-> 0, h |-> 0, frame |-> 0, colored |-> NoColor]

MkImage(sz, frame, colored) ==
    [isNull |-> FALSE, w |-> sz.w, h |-> sz.h, frame |-> frame,
     colored |-> colored]

ImageSize(image) == MkSize(image.w, image.h)

\* Frame's default member initializers.
InitialFrame ==
    [original |-> NullImage, prepared |-> NullImage, request |-> EmptyRequest,
     index |-> 0, display |-> kTimeUnknown, displayed |-> kDisplayedInitial]

GoodStorageForFrame(storage, size) ==
    ~storage.isNull /\ ImageSize(storage) = size

CreateFrameStorage(size) == MkImage(size, 0, NoColor)

\* A faulty GoodForRequest: only an empty box is good.
GoodForRequest_EmptyBoxOnly(image, request) == SizeIsEmpty(request.box)

\* A faulty GoodForRequest: the box has to match on both axes.
GoodForRequest_BothAxes(image, request) ==
    IF SizeIsEmpty(request.box) THEN TRUE
    ELSE IF request.colored # NoColor THEN FALSE
    ELSE LET size == ImageSize(image)
         IN  request.box.w = size.w /\ request.box.h = size.h

GoodForRequest(image, request) ==
    IF SizeIsEmpty(request.box) THEN TRUE
    ELSE IF request.colored # NoColor THEN FALSE
    ELSE LET size == ImageSize(image)
         IN  request.box.w = size.w \/ request.box.h = size.h

\* The storage is filled and painted over whole, so the result depends only
\* on the original and the request.
PrepareByRequest(original, request, storage) ==
    LET size == RequestSize(request, ImageSize(original))
        base == IF GoodStorageForFrame(storage, size) THEN storage
                ELSE CreateFrameStorage(size)
    IN  [base EXCEPT !.frame = original.frame, !.colored = request.colored]

\* What PrepareFrameByRequest leaves and returns: the frame after the call,
\* the image returned, the member it is a copy of (a QImage copy shares the
\* buffer of the image copied) and whether PrepareByRequest ran.
Prepared(frame, image, returned, computed) ==
    [frame |-> frame, image |-> image, returned |-> returned,
     computed |-> computed]

\* A faulty PrepareFrameByRequest: an existing prepared image is not used.
PrepareFrameByRequest_IgnoresExisting(frame, useExistingPrepared) ==
    IF GoodForRequest(frame.original, frame.request)
    THEN Prepared(frame, frame.original, "original", FALSE)
    ELSE LET p == PrepareByRequest(frame.original, frame.request,
                                   frame.prepared)
         IN  Prepared([frame EXCEPT !.prepared = p], p, "prepared", TRUE)

PrepareFrameByRequest(frame, useExistingPrepared) ==
    IF GoodForRequest(frame.original, frame.request)
    THEN Prepared(frame, frame.original, "original", FALSE)
    ELSE IF frame.prepared.isNull \/ ~useExistingPrepared
    THEN LET p == PrepareByRequest(frame.original, frame.request,
                                   frame.prepared)
         IN  Prepared([frame EXCEPT !.prepared = p], p, "prepared", TRUE)
    ELSE Prepared(frame, frame.prepared, "prepared", FALSE)

----------------------------------------------------------------------------
(* The frame cache (lottie_cache.cpp), as far as SharedState uses it.      *)

NoCache ==
    [exists |-> FALSE, firstFrame |-> NullImage, framesReady |-> 0,
     framesCount |-> 0, inits |-> 0]

\* Cache::takeFirstFrame
CacheTakeFirstFrame(cache) == cache.firstFrame

\* Cache::init: the cache starts over for (size, frameRate, framesCount).
CacheInit(cache, framesCount) ==
    [cache EXCEPT !.framesReady = 0, !.framesCount = framesCount,
                  !.inits = @ + 1]

\* Cache::renderFrame returns true when it served the frame.
CacheRenderFrame(cache, request, index) == index < cache.framesReady

\* Cache::appendFrame: frames are stored in order.
CacheAppendFrame(cache, request, index) ==
    IF index = cache.framesReady /\ cache.framesReady < cache.framesCount
    THEN [cache EXCEPT !.framesReady = @ + 1]
    ELSE cache

----------------------------------------------------------------------------
(* SharedState.                                                            *)

\* What the rlottie animation (or the cache) reports: width, height, frame
\* rate in hundredths of a frame per second, number of frames.
MkSource(w, h, rate100, count) ==
    [w |-> w, h |-> h, rate100 |-> rate100, count |-> count]

\* A faulty calculateProperties: a width or height of kMaxSize is kept.
calculateProperties_InclusiveSize(source) ==
    [size |-> MkSize(
        IF source.w > 0 /\ source.w <= kMaxSize THEN source.w ELSE 0,
        IF source.h > 0 /\ source.h <= kMaxSize THEN source.h ELSE 0),
     frameRate |->
        IF source.rate100 >= 100 /\ source.rate100 <= kMaxFrameRate * 100
        THEN source.rate100 \div 100 ELSE 0,
     framesCount |->
        IF source.count > 0 /\ source.count <= kMaxFramesCount
        THEN source.count ELSE 0]

\* SharedState::calculateProperties
calculateProperties(source) ==
    [size |-> MkSize(
        IF source.w > 0 /\ source.w < kMaxSize THEN source.w ELSE 0,
        IF source.h > 0 /\ source.h < kMaxSize THEN source.h ELSE 0),
     frameRate |->
        IF source.rate100 >= 100 /\ source.rate100 <= kMaxFrameRate * 100
        THEN source.rate100 \div 100 ELSE 0,
     framesCount |->
        IF source.count > 0 /\ source.count <= kMaxFramesCount
        THEN source.count ELSE 0]

\* A faulty isValid: the size is not looked at.
isValid_IgnoresSize(s) ==
    s.framesCount > 0 /\ s.frameRate > 0

\* SharedState::isValid
isValid(s) ==
    s.framesCount > 0 /\ s.frameRate > 0 /\ ~SizeIsEmpty(s.size)

\* A default-constructed Information of lottie_common.h (a default QSize is
\* -1 x -1).
EmptyInformation ==
    [frameRate |-> 0, size |-> MkSize(-1, -1), framesCount |-> 0]

\* SharedState::information
information(s) ==
    IF ~isValid(s) THEN EmptyInformation
    ELSE [frameRate |-> s.frameRate, size |-> s.size,
          framesCount |-> s.framesCount]

\* SharedState::initialized
initialized(s) == s.counter # kCounterUninitialized

\* SharedState::renderFrame: the calls it makes on the cache and on the
\* decoder, in order.
renderFrameCalls(s, request, index) ==
    IF ~isValid(s) THEN <<>>
    ELSE IF s.cache.exists /\ CacheRenderFrame(s.cache, request, index)
    THEN <<"cache.renderFrame">>
    ELSE (IF s.cache.exists THEN <<"cache.renderFrame">> ELSE <<>>)
         \o (IF ~s.animation THEN <<"CreateFromContent">> ELSE <<>>)
         \o <<"renderSync">>
         \o (IF ~s.cache.exists THEN <<>>
             ELSE LET appended == CacheAppendFrame(s.cache, request, index)
                  IN  <<"cache.appendFrame">>
                      \o (IF appended.framesReady = appended.framesCount
                          THEN <<"animation = nullptr">> ELSE <<>>))

\* A faulty renderFrame: the decoder is kept when the cache is complete.
renderFrame_KeepsDecoder(s, image, request, index) ==
    IF ~isValid(s) THEN [s |-> s, image |-> image]
    ELSE
    LET size == IF SizeIsEmpty(request.box) THEN s.size
                ELSE RequestSize(request, s.size)
        storage == IF GoodStorageForFrame(image, size) THEN image
                   ELSE CreateFrameStorage(size)
        drawn == [storage EXCEPT !.frame = index, !.colored = NoColor]
    IN  IF s.cache.exists /\ CacheRenderFrame(s.cache, request, index)
        THEN [s |-> s, image |-> drawn]
        ELSE IF ~s.cache.exists
        THEN [s |-> [s EXCEPT !.animation = TRUE], image |-> drawn]
        ELSE LET appended == CacheAppendFrame(s.cache, request, index)
             IN  [s |-> [s EXCEPT !.cache = appended, !.animation = TRUE],
                  image |-> drawn]

\* SharedState::renderFrame: the state and the image after the call.
renderFrame(s, image, request, index) ==
    IF ~isValid(s) THEN [s |-> s, image |-> image]
    ELSE
    LET size == IF SizeIsEmpty(request.box) THEN s.size
                ELSE RequestSize(request, s.size)
        storage == IF GoodStorageForFrame(image, size) THEN image
                   ELSE CreateFrameStorage(size)
        drawn == [storage EXCEPT !.frame = index, !.colored = NoColor]
    IN  IF s.cache.exists /\ CacheRenderFrame(s.cache, request, index)
        THEN [s |-> s, image |-> drawn]
        ELSE IF ~s.cache.exists
        THEN [s |-> [s EXCEPT !.animation = TRUE], image |-> drawn]
        ELSE LET appended == CacheAppendFrame(s.cache, request, index)
             IN  [s |-> [s EXCEPT
                            !.cache = appended,
                            !.animation =
                                appended.framesReady # appended.framesCount],
                  image |-> drawn]

\* SharedState::init
init(s, cover, request) ==
    [s EXCEPT !.frames[0].request = request, !.frames[0].original = cover]

\* A faulty construct: the cache is initialized also when it supplied the
\* first frame.
construct_AlwaysInit(source, hasAnimation, cache, request) ==
    LET props == calculateProperties(source)
        s0 == [frames |-> [i \in Slots |-> InitialFrame],
               counter |-> kCounterUninitialized,
               frameIndex |-> 0,
               framesCount |-> props.framesCount,
               frameRate |-> props.frameRate,
               size |-> props.size,
               started |-> 0,
               delay |-> 0,
               skippedFrames |-> 0,
               owner |-> NoOwner,
               animation |-> hasAnimation,
               cache |-> cache]
        cover == IF cache.exists THEN CacheTakeFirstFrame(cache)
                 ELSE NullImage
    IN  IF ~isValid(s0) THEN s0
        ELSE IF ~cover.isNull
        THEN init([s0 EXCEPT !.cache =
                        CacheInit([cache EXCEPT !.firstFrame = NullImage],
                                  props.framesCount)],
                  cover, request)
        ELSE LET s1 == IF cache.exists
                       THEN [s0 EXCEPT
                               !.cache = CacheInit(cache, props.framesCount)]
                       ELSE s0
                 r == renderFrame(s1, NullImage, request, 0)
             IN  init(r.s, r.image, request)

\* The two constructors followed by SharedState::construct.
construct(source, hasAnimation, cache, request) ==
    LET props == calculateProperties(source)
        s0 == [frames |-> [i \in Slots |-> InitialFrame],
               counter |-> kCounterUninitialized,
               frameIndex |-> 0,
               framesCount |-> props.framesCount,
               frameRate |-> props.frameRate,
               size |-> props.size,
               started |-> 0,
               delay |-> 0,
               skippedFrames |-> 0,
               owner |-> NoOwner,
               animation |-> hasAnimation,
               cache |-> cache]
        cover == IF cache.exists THEN CacheTakeFirstFrame(cache)
                 ELSE NullImage
    IN  IF ~isValid(s0) THEN s0
        ELSE IF ~cover.isNull
        THEN init([s0 EXCEPT !.cache.firstFrame = NullImage], cover, request)
        ELSE LET s1 == IF cache.exists
                       THEN [s0 EXCEPT
                               !.cache = CacheInit(cache, props.framesCount)]
                       ELSE s0
                 r == renderFrame(s1, NullImage, request, 0)
             IN  init(r.s, r.image, request)

\* A faulty start: the delay is not stored.
start_DropsDelay(s, owner, started, delay, skippedFrames) ==
    [s EXCEPT !.owner = owner, !.started = started,
              !.skippedFrames = skippedFrames, !.counter = 0]

\* SharedState::start
start(s, owner, started, delay, skippedFrames) ==
    [s EXCEPT !.owner = owner, !.started = started, !.delay = delay,
              !.skippedFrames = skippedFrames, !.counter = 0]

\* IsRendered(frame)
IsRendered(frame) == frame.displayed = kTimeUnknown
\* A faulty display time: the frame number wraps with the animation.
countFrameDisplayTime_Wrapped(s, index) ==
    s.started + s.delay
    + CDiv(1000 * ((s.skippedFrames + index) % s.framesCount), s.frameRate)

\* A faulty display time: the frame duration is rounded before it is
\* multiplied, so the rounding error accumulates.
countFrameDisplayTime_Drift(s, index) ==
    s.started + s.delay
    + (s.skippedFrames + index) * CDiv(1000, s.frameRate)

\* A faulty display time: the skipped frames are left out.
countFrameDisplayTime_NoSkipped(s, index) ==
    s.started + s.delay + CDiv(1000 * index, s.frameRate)

\* SharedState::countFrameDisplayTime
countFrameDisplayTime(s, index) ==
    s.started + s.delay + CDiv(1000 * (s.skippedFrames + index), s.frameRate)
\* A faulty render: the frame index is incremented after it is used.
renderNextFrameInto_PostIncrement(s, slot, request) ==
    LET frameIndex == s.frameIndex + 1
        r == renderFrame(s, s.frames[slot].original, request,
                         s.frameIndex % s.framesCount)
        f1 == [s.frames[slot] EXCEPT !.original = r.image,
                                     !.request = request]
        f2 == PrepareFrameByRequest(f1, FALSE).frame
        f3 == [f2 EXCEPT !.index = frameIndex, !.displayed = kTimeUnknown]
    IN  [r.s EXCEPT !.frameIndex = frameIndex, !.frames[slot] = f3]

\* A faulty render: the slot keeps the frame index it had.
renderNextFrameInto_KeepsIndex(s, slot, request) ==
    LET frameIndex == s.frameIndex + 1
        r == renderFrame(s, s.frames[slot].original, request,
                         frameIndex % s.framesCount)
        f1 == [s.frames[slot] EXCEPT !.original = r.image,
                                     !.request = request]
        f2 == PrepareFrameByRequest(f1, FALSE).frame
        f3 == [f2 EXCEPT !.displayed = kTimeUnknown]
    IN  [r.s EXCEPT !.frameIndex = frameIndex, !.frames[slot] = f3]

\* SharedState::renderNextFrame(frame, request): the state after rendering
\* the next animation frame into slot `slot`.
renderNextFrameInto(s, slot, request) ==
    LET frameIndex == s.frameIndex + 1
        r == renderFrame(s, s.frames[slot].original, request,
                         frameIndex % s.framesCount)
        f1 == [s.frames[slot] EXCEPT !.original = r.image,
                                     !.request = request]
        f2 == PrepareFrameByRequest(f1, FALSE).frame
        f3 == [f2 EXCEPT !.index = frameIndex, !.displayed = kTimeUnknown]
    IN  [r.s EXCEPT !.frameIndex = frameIndex, !.frames[slot] = f3]

\* RenderResult
RenderResult(s, isFatal, rendered, notify) ==
    [s |-> s, fatal |-> isFatal, rendered |-> rendered, notify |-> notify]

\* A faulty prerender: it looks three slots ahead, not two.
prerenderTarget_ThreeAhead(s, index) ==
    LET next == (index + 1) % kFramesCount
        after == (index + 2) % kFramesCount
    IN  IF ~IsRendered(s.frames[index]) THEN index
        ELSE IF ~IsRendered(s.frames[next]) THEN next
        ELSE IF ~IsRendered(s.frames[after]) THEN after
        ELSE -1

\* A faulty prerender: the second slot is rendered without the IsRendered
\* test.
prerenderTarget_NoSecondTest(s, index) ==
    LET next == (index + 1) % kFramesCount
    IN  IF ~IsRendered(s.frames[index]) THEN index
        ELSE next

\* The prerender lambda of renderNextFrame: the slot it renders into, or -1.
prerenderTarget(s, index) ==
    LET next == (index + 1) % kFramesCount
    IN  IF ~IsRendered(s.frames[index]) THEN index
        ELSE IF ~IsRendered(s.frames[next]) THEN next
        ELSE -1
\* A faulty prerender: it hands back the owner although nothing was promoted.
prerender_Notifies(s, index, request) ==
    LET next == (index + 1) % kFramesCount
        target == IF s.frames[index].displayed # kTimeUnknown THEN index
                  ELSE IF s.frames[next].displayed # kTimeUnknown THEN next
                  ELSE -1
    IN  IF target = -1
        THEN [s |-> s, fatal |-> FALSE, rendered |-> FALSE,
              notify |-> NoOwner]
        ELSE [s |-> renderNextFrameInto(s, target, request),
              fatal |-> FALSE, rendered |-> TRUE, notify |-> s.owner]

prerender(s, index, request) ==
    LET target == prerenderTarget(s, index)
    IN  IF target = -1 THEN RenderResult(s, FALSE, FALSE, NoOwner)
        ELSE IF s.framesCount <= 0 THEN RenderResult(s, TRUE, FALSE, NoOwner)
        ELSE RenderResult(renderNextFrameInto(s, target, request),
                          FALSE, TRUE, NoOwner)

\* The present lambda of renderNextFrame, in its three steps.
presentRender(s, index, request) ==
    IF ~IsRendered(s.frames[index])
    THEN renderNextFrameInto(s, index, request)
    ELSE s

\* A faulty present: the display time is not written.
presentDisplay_Skipped(s, index) == s

presentDisplay(s, index) ==
    [s EXCEPT !.frames[index].display =
                  countFrameDisplayTime(s, s.frames[index].index)]

presentStore(s, counter) ==
    [s EXCEPT !.counter = (counter + 1) % (2 * kFramesCount)]

present(s, counter, index, request) ==
    IF ~IsRendered(s.frames[index]) /\ s.framesCount <= 0
    THEN RenderResult(s, TRUE, FALSE, NoOwner)
    ELSE RenderResult(
            presentStore(
                presentDisplay(presentRender(s, index, request), index),
                counter),
            FALSE, TRUE, s.owner)
\* A faulty switch: at an odd counter prerender is given the slot that
\* awaits promotion instead of the one after it.
renderCase_PendingSlot(c) ==
    IF c \in {0, 2, 4, 6}
    THEN [present |-> TRUE, index |-> ((c \div 2) + 1) % kFramesCount]
    ELSE IF c \in {1, 3, 5, 7}
    THEN [present |-> FALSE, index |-> ((c + 1) % (2 * kFramesCount)) \div 2]
    ELSE [present |-> FALSE, index |-> -1]

\* The switch of renderNextFrame: what it calls for the counter value `c`.
renderCase(c) ==
    CASE c = 0 -> [present |-> TRUE, index |-> 1]
      [] c = 1 -> [present |-> FALSE, index |-> 2]
      [] c = 2 -> [present |-> TRUE, index |-> 2]
      [] c = 3 -> [present |-> FALSE, index |-> 3]
      [] c = 4 -> [present |-> TRUE, index |-> 3]
      [] c = 5 -> [present |-> FALSE, index |-> 0]
      [] c = 6 -> [present |-> TRUE, index |-> 0]
      [] c = 7 -> [present |-> FALSE, index |-> 1]
      [] OTHER -> [present |-> FALSE, index |-> -1]

\* renderNextFrame for the counter value `c` it has loaded.
renderNextFrameAt(s, c, request) ==
    LET case == renderCase(c)
    IN  IF case.index = -1 THEN RenderResult(s, TRUE, FALSE, NoOwner)
        ELSE IF case.present THEN present(s, c, case.index, request)
        ELSE prerender(s, case.index, request)

\* SharedState::renderNextFrame(request)
renderNextFrame(s, request) == renderNextFrameAt(s, s.counter, request)

\* The slot the consumer's calls reach at an odd counter: the one awaiting
\* promotion.
nextIndex(counter) == ((counter + 1) % (2 * kFramesCount)) \div 2

OddCounters == {1, 3, 5, 7}
EvenCounters == {0, 2, 4, 6}
\* A faulty frameForPaint: the slot index is rounded down, not toward zero.
frameForPaintAt_FloorDiv(s, c) ==
    LET index == c \div 2
    IN  IF index \notin Slots THEN [fatal |-> TRUE, slot |-> -1]
        ELSE IF s.frames[index].original.isNull
        THEN [fatal |-> TRUE, slot |-> -1]
        ELSE IF s.frames[index].displayed = kTimeUnknown
        THEN [fatal |-> TRUE, slot |-> -1]
        ELSE [fatal |-> FALSE, slot |-> index]

\* SharedState::frameForPaint: the slot returned, unless an assertion fails.
frameForPaintAt(s, c) ==
    LET index == CDiv(c, 2)
    IN  IF index \notin Slots THEN [fatal |-> TRUE, slot |-> -1]
        ELSE IF s.frames[index].original.isNull
        THEN [fatal |-> TRUE, slot |-> -1]
        ELSE IF s.frames[index].displayed = kTimeUnknown
        THEN [fatal |-> TRUE, slot |-> -1]
        ELSE [fatal |-> FALSE, slot |-> index]

frameForPaint(s) == frameForPaintAt(s, s.counter)

\* A faulty nextFrameDisplayTime: the display time is returned although the
\* frame is displayed already.
nextFrameDisplayTimeAt_IgnoresDisplayed(s, c) ==
    IF c \in EvenCounters THEN [fatal |-> FALSE, time |-> kTimeUnknown]
    ELSE IF c \in OddCounters
    THEN LET frame == s.frames[nextIndex(c)]
         IN  IF frame.display = kTimeUnknown
             THEN [fatal |-> TRUE, time |-> kTimeUnknown]
             ELSE [fatal |-> FALSE, time |-> frame.display]
    ELSE [fatal |-> TRUE, time |-> kTimeUnknown]

\* SharedState::nextFrameDisplayTime
nextFrameDisplayTimeAt(s, c) ==
    IF c \in EvenCounters THEN [fatal |-> FALSE, time |-> kTimeUnknown]
    ELSE IF c \in OddCounters
    THEN LET frame == s.frames[nextIndex(c)]
         IN  IF frame.displayed # kTimeUnknown
             THEN [fatal |-> FALSE, time |-> kFrameDisplayTimeAlreadyDone]
             ELSE IF frame.display = kTimeUnknown
             THEN [fatal |-> TRUE, time |-> kTimeUnknown]
             ELSE [fatal |-> FALSE, time |-> frame.display]
    ELSE [fatal |-> TRUE, time |-> kTimeUnknown]

nextFrameDisplayTime(s) == nextFrameDisplayTimeAt(s, s.counter)
\* A faulty addTimelineDelay: the pending frame is not recounted.
addTimelineDelayAt_NoRecount(s, c, delayed, skippedFrames) ==
    IF delayed = 0 /\ skippedFrames = 0 THEN [s |-> s, fatal |-> FALSE]
    ELSE IF c \in OddCounters
    THEN [s |-> [s EXCEPT !.delay = @ + delayed,
                          !.skippedFrames = @ + skippedFrames],
          fatal |-> FALSE]
    ELSE [s |-> s, fatal |-> TRUE]

\* A faulty addTimelineDelay: the pending frame is recounted although it is
\* displayed already.
addTimelineDelayAt_RecountDisplayed(s, c, delayed, skippedFrames) ==
    IF delayed = 0 /\ skippedFrames = 0 THEN [s |-> s, fatal |-> FALSE]
    ELSE IF c \in OddCounters
    THEN LET s1 == [s EXCEPT !.delay = @ + delayed,
                             !.skippedFrames = @ + skippedFrames]
             index == nextIndex(c)
         IN  [s |-> [s1 EXCEPT !.frames[index].display =
                        countFrameDisplayTime(s1, s1.frames[index].index)],
              fatal |-> FALSE]
    ELSE [s |-> s, fatal |-> TRUE]

\* A faulty addTimelineDelay: every slot that is not displayed is recounted.
addTimelineDelayAt_RecountAll(s, c, delayed, skippedFrames) ==
    IF delayed = 0 /\ skippedFrames = 0 THEN [s |-> s, fatal |-> FALSE]
    ELSE IF c \in OddCounters
    THEN LET s1 == [s EXCEPT !.delay = @ + delayed,
                             !.skippedFrames = @ + skippedFrames]
         IN  [s |-> [s1 EXCEPT !.frames =
                        [i \in Slots |->
                            IF s1.frames[i].displayed = kTimeUnknown
                            THEN [s1.frames[i] EXCEPT !.display =
                                    countFrameDisplayTime(s1,
                                                          s1.frames[i].index)]
                            ELSE s1.frames[i]]],
              fatal |-> FALSE]
    ELSE [s |-> s, fatal |-> TRUE]

\* A faulty addTimelineDelay: the call with no delay and no skipped frames
\* goes through the switch as any other.
addTimelineDelayAt_NoEarlyReturn(s, c, delayed, skippedFrames) ==
    IF c \in OddCounters
    THEN LET s1 == [s EXCEPT !.delay = @ + delayed,
                             !.skippedFrames = @ + skippedFrames]
             index == nextIndex(c)
             frame == s1.frames[index]
         IN  IF frame.displayed # kTimeUnknown
             THEN [s |-> s1, fatal |-> FALSE]
             ELSE IF frame.display = kTimeUnknown
             THEN [s |-> s1, fatal |-> TRUE]
             ELSE [s |-> [s1 EXCEPT !.frames[index].display =
                                 countFrameDisplayTime(s1, frame.index)],
                   fatal |-> FALSE]
    ELSE [s |-> s, fatal |-> TRUE]

\* SharedState::addTimelineDelay
addTimelineDelayAt(s, c, delayed, skippedFrames) ==
    IF delayed = 0 /\ skippedFrames = 0 THEN [s |-> s, fatal |-> FALSE]
    ELSE IF c \in OddCounters
    THEN LET s1 == [s EXCEPT !.delay = @ + delayed,
                             !.skippedFrames = @ + skippedFrames]
             index == nextIndex(c)
             frame == s1.frames[index]
         IN  IF frame.displayed # kTimeUnknown
             THEN [s |-> s1, fatal |-> FALSE]
             ELSE IF frame.display = kTimeUnknown
             THEN [s |-> s1, fatal |-> TRUE]
             ELSE [s |-> [s1 EXCEPT !.frames[index].display =
                                 countFrameDisplayTime(s1, frame.index)],
                   fatal |-> FALSE]
    ELSE [s |-> s, fatal |-> TRUE]

addTimelineDelay(s, delayed, skippedFrames) ==
    addTimelineDelayAt(s, s.counter, delayed, skippedFrames)
\* A faulty markFrameDisplayed: every mark overwrites the previous one.
markFrameDisplayedAt_Overwrite(s, c, now) ==
    IF c \in OddCounters
    THEN [s |-> [s EXCEPT !.frames[nextIndex(c)].displayed = now],
          fatal |-> FALSE]
    ELSE [s |-> s, fatal |-> TRUE]

\* A faulty markFrameDisplayed: at an even counter it returns silently.
markFrameDisplayedAt_SilentEven(s, c, now) ==
    IF c \in OddCounters
    THEN LET index == nextIndex(c)
         IN  IF s.frames[index].displayed = kTimeUnknown
             THEN [s |-> [s EXCEPT !.frames[index].displayed = now],
                   fatal |-> FALSE]
             ELSE [s |-> s, fatal |-> FALSE]
    ELSE [s |-> s, fatal |-> c \notin EvenCounters]

\* SharedState::markFrameDisplayed
markFrameDisplayedAt(s, c, now) ==
    IF c \in OddCounters
    THEN LET index == nextIndex(c)
         IN  IF s.frames[index].displayed = kTimeUnknown
             THEN [s |-> [s EXCEPT !.frames[index].displayed = now],
                   fatal |-> FALSE]
             ELSE [s |-> s, fatal |-> FALSE]
    ELSE [s |-> s, fatal |-> TRUE]

markFrameDisplayed(s, now) == markFrameDisplayedAt(s, s.counter, now)
\* A faulty markFrameShown: it jumps without looking at displayed.
markFrameShownAt_NoDisplayedCheck(s, c) ==
    IF c \in EvenCounters THEN [s |-> s, fatal |-> FALSE, shown |-> FALSE]
    ELSE IF c \in OddCounters
    THEN [s |-> [s EXCEPT !.counter = (c + 1) % (2 * kFramesCount)],
          fatal |-> FALSE, shown |-> TRUE]
    ELSE [s |-> s, fatal |-> TRUE, shown |-> FALSE]

\* A faulty markFrameShown: it stores the counter before the test and
\* reports the test.
markFrameShownAt_StoreFirst(s, c) ==
    IF c \in EvenCounters THEN [s |-> s, fatal |-> FALSE, shown |-> FALSE]
    ELSE IF c \in OddCounters
    THEN [s |-> [s EXCEPT !.counter = (c + 1) % (2 * kFramesCount)],
          fatal |-> FALSE,
          shown |-> s.frames[nextIndex(c)].displayed # kTimeUnknown]
    ELSE [s |-> s, fatal |-> TRUE, shown |-> FALSE]

\* A faulty markFrameShown: the case 2 of its switch jumps as the odd cases
\* do.
markFrameShownAt_JumpAtTwo(s, c) ==
    IF c \in EvenCounters \ {2}
    THEN [s |-> s, fatal |-> FALSE, shown |-> FALSE]
    ELSE IF c \in OddCounters \cup {2}
    THEN LET next == (c + 1) % (2 * kFramesCount)
             index == next \div 2
         IN  IF s.frames[index].displayed = kTimeUnknown
             THEN [s |-> s, fatal |-> FALSE, shown |-> FALSE]
             ELSE [s |-> [s EXCEPT !.counter = next],
                   fatal |-> FALSE, shown |-> TRUE]
    ELSE [s |-> s, fatal |-> TRUE, shown |-> FALSE]

\* SharedState::markFrameShown
markFrameShownAt(s, c) ==
    IF c \in EvenCounters THEN [s |-> s, fatal |-> FALSE, shown |-> FALSE]
    ELSE IF c \in OddCounters
    THEN LET next == (c + 1) % (2 * kFramesCount)
             index == next \div 2
         IN  IF s.frames[index].displayed = kTimeUnknown
             THEN [s |-> s, fatal |-> FALSE, shown |-> FALSE]
             ELSE [s |-> [s EXCEPT !.counter = next],
                   fatal |-> FALSE, shown |-> TRUE]
    ELSE [s |-> s, fatal |-> TRUE, shown |-> FALSE]

markFrameShown(s) == markFrameShownAt(s, s.counter)

----------------------------------------------------------------------------
(* FrameRendererObject and the FrameRenderer facade. The object lives on   *)
(* its own serial queue; the facade and the object itself post closures to *)
(* that queue, which runs them one at a time in the order posted.          *)

\* A closure on the renderer's queue: the call it makes and its captures.
Task(op, entry, request) == [op |-> op, entry |-> entry, request |-> request]

NoEntry == 0

\* The closure queueGenerateFrames posts through _weak.
GenerateTask == Task("generateFrames", NoEntry, EmptyRequest)

\* A faulty post: the closure is put at the front of the queue.
with_Front(q, task) == <<task>> \o q

\* crl::object_on_queue::with / crl::weak_on_queue::with: post a closure.
with(q, task) == Append(q, task)

\* ranges::find(_entries, entry, &StateFromEntry): the position, 0 if absent.
FindEntry(entries, entry) ==
    IF \E i \in 1 .. Len(entries) : entries[i].state = entry
    THEN CHOOSE i \in 1 .. Len(entries) :
            /\ entries[i].state = entry
            /\ \A j \in 1 .. (i - 1) : entries[j].state # entry
    ELSE 0

\* _entries.erase(i)
EraseAt(entries, i) ==
    SubSeq(entries, 1, i - 1) \o SubSeq(entries, i + 1, Len(entries))

\* A faulty queueGenerateFrames: it posts although a pass is pending.
queueGenerateFrames_NoFlagTest(r, q) ==
    [r |-> [r EXCEPT !.queued = TRUE], queue |-> with(q, GenerateTask)]

\* FrameRendererObject::queueGenerateFrames: the object and its queue after.
queueGenerateFrames(r, q) ==
    IF r.queued THEN [r |-> r, queue |-> q]
    ELSE [r |-> [r EXCEPT !.queued = TRUE], queue |-> with(q, GenerateTask)]

\* A faulty append: the entry's request is left empty.
append_EmptyRequest(r, q, sts, entry) ==
    LET painted == frameForPaint(sts[entry])
        r1 == [r EXCEPT !.entries =
                  Append(@, [state |-> entry, request |-> EmptyRequest])]
        queued == queueGenerateFrames(r1, q)
    IN  IF painted.fatal
        THEN [r |-> r1, queue |-> q, fatal |-> TRUE]
        ELSE [r |-> queued.r, queue |-> queued.queue, fatal |-> FALSE]

\* FrameRendererObject::append
append(r, q, sts, entry) ==
    LET painted == frameForPaint(sts[entry])
        request == IF painted.fatal THEN EmptyRequest
                   ELSE sts[entry].frames[painted.slot].request
        r1 == [r EXCEPT !.entries =
                  Append(@, [state |-> entry, request |-> request])]
        queued == queueGenerateFrames(r1, q)
    IN  IF painted.fatal
        THEN [r |-> r1, queue |-> q, fatal |-> TRUE]
        ELSE [r |-> queued.r, queue |-> queued.queue, fatal |-> FALSE]

\* A faulty frameShown: the hint is dropped.
frameShown_Dropped(r, q) == [r |-> r, queue |-> q]

\* FrameRendererObject::frameShown
frameShown(r, q) == queueGenerateFrames(r, q)

\* A faulty updateFrameRequest: the request goes to the first entry.
updateFrameRequest_FirstEntry(r, entry, request) ==
    LET i == FindEntry(r.entries, entry)
    IN  IF i = 0 THEN [r |-> r, fatal |-> TRUE]
        ELSE [r |-> [r EXCEPT !.entries[1].request = request],
              fatal |-> FALSE]

\* FrameRendererObject::updateFrameRequest
updateFrameRequest(r, entry, request) ==
    LET i == FindEntry(r.entries, entry)
    IN  IF i = 0 THEN [r |-> r, fatal |-> TRUE]
        ELSE [r |-> [r EXCEPT !.entries[i].request = request],
              fatal |-> FALSE]

\* A faulty remove: it erases the first entry.
remove_FirstEntry(r, entry) ==
    LET i == FindEntry(r.entries, entry)
    IN  IF i = 0 THEN [r |-> r, fatal |-> TRUE]
        ELSE [r |-> [r EXCEPT !.entries = EraseAt(@, 1)], fatal |-> FALSE]

\* FrameRendererObject::remove
remove(r, entry) ==
    LET i == FindEntry(r.entries, entry)
    IN  IF i = 0 THEN [r |-> r, fatal |-> TRUE]
        ELSE [r |-> [r EXCEPT !.entries = EraseAt(@, i)], fatal |-> FALSE]

\* A faulty emplace: a key that is present is inserted again.
emplace_Duplicates(players, player) == Append(players, player)

\* base::flat_map::emplace: a key that is present is not inserted again.
emplace(players, player) ==
    IF \E i \in 1 .. Len(players) : players[i] = player THEN players
    ELSE Append(players, player)

\* base::weak_ptr::get: the player, or none once it is destroyed.
WeakGet(player, living) ==
    IF player \in living THEN player ELSE NoOwner

\* The renderOne lambda of generateFrames, applied to the entries from
\* position i on: the states after, the players collected, and per entry
\* what renderNextFrame returned.
\* What one entry's render adds to the pass so far.
renderedEntry(entry, living, acc, result) ==
    [states |-> [acc.states EXCEPT ![entry.state] = result.s],
     players |-> IF WeakGet(result.notify, living) # NoOwner
                 THEN emplace(acc.players, WeakGet(result.notify, living))
                 ELSE acc.players,
     log |-> Append(acc.log,
                [entry |-> entry.state,
                 request |-> entry.request,
                 rendered |-> result.rendered,
                 promoted |-> result.notify # NoOwner,
                 notify |-> WeakGet(result.notify, living)]),
     fatal |-> acc.fatal \/ result.fatal]

\* The renderOne lambda of generateFrames, applied to one entry.
renderOne(entry, living, acc) ==
    CHOOSE next \in
        {renderedEntry(entry, living, acc, result) :
            result \in {renderNextFrame(acc.states[entry.state],
                                        entry.request)}} : TRUE

\* ranges::count_if(_entries, renderOne): every entry is visited, in order.
RECURSIVE renderEntries(_, _, _, _)
renderEntries(entries, i, living, acc) ==
    IF i > Len(entries) THEN acc
    ELSE CHOOSE pass \in
            {renderEntries(entries, i + 1, living, next) :
                next \in {renderOne(entries[i], living, acc)}} : TRUE

\* A faulty pass: it stops after the first entry.
renderPass_FirstOnly(r, sts, living) ==
    renderEntries(IF r.entries = <<>> THEN <<>> ELSE <<Head(r.entries)>>,
        1, living,
        [states |-> sts, players |-> <<>>, log |-> <<>>, fatal |-> FALSE])

\* The pass of generateFrames over the entries, from the states sts.
renderPass(r, sts, living) ==
    renderEntries(r.entries, 1, living,
        [states |-> sts, players |-> <<>>, log |-> <<>>, fatal |-> FALSE])

\* count_if's result is nonzero: some entry rendered a frame.
anyRendered(pass) == \E i \in 1 .. Len(pass.log) : pass.log[i].rendered

\* A faulty end of generateFrames: it never posts the next pass.
afterPass_NeverRequeue(r, q, main, pass, rendered) ==
    [r |-> r,
     queue |-> q,
     mainQueue |-> IF rendered /\ pass.players # <<>>
                   THEN Append(main, pass.players) ELSE main,
     states |-> pass.states,
     players |-> pass.players,
     log |-> pass.log,
     rendered |-> rendered,
     fatal |-> pass.fatal]

\* The end of generateFrames: when something rendered, the players are
\* notified on the main thread and the next pass is queued.
afterPass(r, q, main, pass, rendered) ==
    [r |-> IF rendered THEN queueGenerateFrames(r, q).r ELSE r,
     queue |-> IF rendered THEN queueGenerateFrames(r, q).queue ELSE q,
     mainQueue |-> IF rendered /\ pass.players # <<>>
                   THEN Append(main, pass.players) ELSE main,
     states |-> pass.states,
     players |-> pass.players,
     log |-> pass.log,
     rendered |-> rendered,
     fatal |-> pass.fatal]

\* FrameRendererObject::generateFrames
generateFrames(r, q, main, sts, living) ==
    CHOOSE out \in
        {afterPass(r, q, main, pass, anyRendered(pass)) :
            pass \in {renderPass(r, sts, living)}} : TRUE

\* The closure generateFrames posts to the main thread: checkStep of every
\* collected player whose weak pointer is still set.
NotifyPlayers(players, living) ==
    SelectSeq(players, LAMBDA player : player \in living)

----------------------------------------------------------------------------
(* Inputs.                                                                 *)

Owners == {"player"}
Requests == {EmptyRequest, MkRequest(1, 1, "red")}

\* FrameRendererObject::append seeds the entry's request from the request of
\* the state's first frame; without updateFrameRequest calls every pass
\* renders with it.
EntryRequest(s) == s.frames[0].request

\* crl::now() does not run backwards: a mark is not older than the marks the
\* slots still hold.
NowPossible(s, now) ==
    \A i \in Slots : s.frames[i].displayed <= now
NowSet == {5, 6}
DelaySet == {0, 1}
SkipSet == {0, 1}

ValidSource == MkSource(2, 2, 3000, 3)
SlowSource == MkSource(4, 2, 150, 2)
InvalidSource == MkSource(2, 2, 3000, 0)
\* Half a frame per second, and a width of kMaxSize.
ZeroRateSource == MkSource(2, 2, 50, 3)
OversizeSource == MkSource(kMaxSize, 2, 3000, 3)

EmptyCache == [NoCache EXCEPT !.exists = TRUE]
\* A cache that holds a first frame.
CoverCache ==
    [EmptyCache EXCEPT !.firstFrame = MkImage(MkSize(2, 2), 0, NoColor)]

\* A cache read back with its first frame and no other, of three.
PartialCache ==
    [CoverCache EXCEPT !.framesReady = 1, !.framesCount = 3]

\* What a constructor is given: what the animation or the cache reports,
\* whether there is a decoder, the cache, and the request. There is a decoder
\* or a cache.
Sources ==
    {ValidSource, SlowSource, InvalidSource, ZeroRateSource, OversizeSource}
Caches == {NoCache, EmptyCache, CoverCache, PartialCache}
ConstructArgs ==
    {a \in [source : Sources, hasAnimation : BOOLEAN, cache : Caches,
            request : Requests] : a.hasAnimation \/ a.cache.exists}

\* The states a constructor can leave: from a live animation or from a
\* cache, valid or not.
Constructed ==
    {construct(ValidSource, TRUE, NoCache, EmptyRequest),
     construct(ValidSource, FALSE, PartialCache, EmptyRequest),
     construct(SlowSource, TRUE, EmptyCache, MkRequest(1, 1, "red")),
     construct(InvalidSource, TRUE, NoCache, EmptyRequest),
     construct(ZeroRateSource, FALSE, CoverCache, EmptyRequest),
     construct(OversizeSource, TRUE, EmptyCache, MkRequest(1, 1, "red"))}

\* The arguments of start: (started, delay, skippedFrames).
StartArgs == {<<0, 0, 0>>, <<7, 1, 1>>}

\* A value of nextFrameDisplayTime that is a display time, not a sentinel.
IsTimestamp(time) ==
    time # kTimeUnknown /\ time # kFrameDisplayTimeAlreadyDone

NoPoll == [hasReal |-> FALSE, real |-> 0, rose |-> FALSE]

BgIdle == [pc |-> "idle", c |-> 0, slot |-> -1, request |-> EmptyRequest]
CsIdle == [pc |-> "idle", op |-> "none", c |-> 0, a1 |-> 0, a2 |-> 0]

\* The states handed to the FrameRenderer, by the pointer that names them,
\* and the players that own them.
Ids == {1, 2}
\* The states whose player is followed call by call; the other states are
\* appended and then left to the renderer.
Followed == {1}
Players == {"player", "other"}
RendererNowSet == {5}

\* The request each state is constructed with.
ConstructRequest(id) ==
    IF id = 1 THEN EmptyRequest ELSE MkRequest(1, 1, "red")

\* Two valid states, each started by its player before it is appended.
RendererStates(owner1, owner2) ==
    [id \in Ids |->
        IF id = 1
        THEN start(construct(ValidSource, TRUE, NoCache,
                             ConstructRequest(id)),
                   owner1, 0, 0, 0)
        ELSE start(construct(SlowSource, TRUE, EmptyCache,
                             ConstructRequest(id)),
                   owner2, 0, 0, 0)]

NoLast ==
    [op |-> "none", entry |-> NoEntry,
     request |-> EmptyRequest, log |-> <<>>, players |-> <<>>,
     rendered |-> FALSE]

NoMain == [players |-> <<>>, living |-> {}, checked |-> <<>>]

\* No frame was asked for yet.
NoPaint ==
    [slot |-> -1, request |-> EmptyRequest, before |-> InitialFrame,
     image |-> NullImage, returned |-> "none", computed |-> FALSE,
     entry |-> EmptyRequest, count |-> 0]

\* A FrameRenderer just created, with the states `sts` not yet appended.
RendererCreated(sts) ==
    /\ states = sts
    /\ renderer = [entries |-> <<>>, queued |-> FALSE]
    /\ queue = <<>>
    /\ mainQueue = <<>>
    /\ alive = Players
    /\ issued = [id \in Ids |-> "none"]
    /\ last = NoLast
    /\ lastMain = NoMain

Init ==
    /\ state \in Constructed
    /\ fatal = FALSE
    /\ lastPoll = NoPoll
    /\ bg = BgIdle
    /\ cs = CsIdle
    /\ lastPaint = NoPaint
    /\ RendererCreated(RendererStates("player", "player"))

----------------------------------------------------------------------------
(* The calls, each as one step.                                            *)

\* Player starts a valid state once, before handing it to the renderer.
Start(owner, started, delay, skippedFrames) ==
    /\ ~fatal
    /\ isValid(state)
    /\ ~initialized(state)
    /\ state' = start(state, owner, started, delay, skippedFrames)
    /\ UNCHANGED <<fatal, lastPoll, bg, cs>>
    /\ UNCHANGED <<lastPaint, rvars>>

RenderNextFrameUpTo(request, maxFrameIndex) ==
    /\ ~fatal
    /\ isValid(state)
    /\ request = EntryRequest(state)
    /\ state.frameIndex < maxFrameIndex
    /\ LET r == renderNextFrame(state, request)
       IN  /\ state' = r.s
           /\ fatal' = r.fatal
    /\ UNCHANGED <<lastPoll, bg, cs>>
    /\ UNCHANGED <<lastPaint, rvars>>

RenderNextFrame(request) == RenderNextFrameUpTo(request, MaxFrameIndex)

FrameForPaint ==
    /\ ~fatal
    /\ fatal' = frameForPaint(state).fatal
    /\ UNCHANGED <<state, lastPoll, bg, cs>>
    /\ UNCHANGED <<lastPaint, rvars>>

NextFrameDisplayTime ==
    /\ ~fatal
    /\ isValid(state)
    /\ LET r == nextFrameDisplayTime(state)
       IN  /\ fatal' = r.fatal
           /\ lastPoll' =
                IF ~r.fatal /\ IsTimestamp(r.time)
                THEN [hasReal |-> TRUE, real |-> r.time,
                      rose |-> lastPoll.rose
                               \/ (lastPoll.hasReal /\ r.time > lastPoll.real)]
                ELSE lastPoll
    /\ UNCHANGED <<state, bg, cs>>
    /\ UNCHANGED <<lastPaint, rvars>>

AddTimelineDelay(delayed, skippedFrames) ==
    /\ ~fatal
    /\ isValid(state)
    /\ state.delay + delayed <= MaxDelay
    /\ state.skippedFrames + skippedFrames <= MaxSkipped
    /\ LET r == addTimelineDelay(state, delayed, skippedFrames)
       IN  /\ state' = r.s
           /\ fatal' = r.fatal
    /\ lastPoll' = NoPoll
    /\ UNCHANGED <<bg, cs>>
    /\ UNCHANGED <<lastPaint, rvars>>

MarkFrameDisplayed(now) ==
    /\ ~fatal
    /\ isValid(state)
    /\ NowPossible(state, now)
    /\ LET r == markFrameDisplayed(state, now)
       IN  /\ state' = r.s
           /\ fatal' = r.fatal
    /\ UNCHANGED <<lastPoll, bg, cs>>
    /\ UNCHANGED <<lastPaint, rvars>>

MarkFrameShown ==
    /\ ~fatal
    /\ isValid(state)
    /\ LET r == markFrameShown(state)
       IN  /\ state' = r.s
           /\ fatal' = r.fatal
    /\ UNCHANGED <<lastPoll, bg, cs>>
    /\ UNCHANGED <<lastPaint, rvars>>

Next ==
    \/ \E owner \in Owners, a \in StartArgs :
            Start(owner, a[1], a[2], a[3])
    \/ \E request \in Requests : RenderNextFrame(request)
    \/ FrameForPaint
    \/ NextFrameDisplayTime
    \/ \E delayed \in DelaySet, skippedFrames \in SkipSet :
            AddTimelineDelay(delayed, skippedFrames)
    \/ \E now \in NowSet : MarkFrameDisplayed(now)
    \/ MarkFrameShown

Spec == Init /\ [][Next]_vars

----------------------------------------------------------------------------
(* The scenario of 30 frames at 30 frames per second, started at 0 with no *)
(* delay and an empty request: the renderer pumps renderNextFrame and the  *)
(* consumer marks each frame displayed and shown.                          *)

ScenarioSource == MkSource(2, 2, 3000, 30)

InitScenario ==
    /\ state = construct(ScenarioSource, TRUE, NoCache, EmptyRequest)
    /\ fatal = FALSE
    /\ lastPoll = NoPoll
    /\ bg = BgIdle
    /\ cs = CsIdle
    /\ lastPaint = NoPaint
    /\ RendererCreated(RendererStates("player", "player"))

ScenarioRender == RenderNextFrameUpTo(EmptyRequest, ScenarioMaxFrameIndex)

NextScenario ==
    \/ \E owner \in Owners : Start(owner, 0, 0, 0)
    \/ ScenarioRender
    \/ \E now \in NowSet : MarkFrameDisplayed(now)
    \/ MarkFrameShown

SpecScenario == InitScenario /\ [][NextScenario]_vars

----------------------------------------------------------------------------
(* The two threads interleaved. The renderer's queue runs renderNextFrame  *)
(* step by step: it loads the counter, examines the target slots, renders  *)
(* into one, and in present writes the display time and stores the         *)
(* counter. The consumer loads the counter at the start of each of its     *)
(* calls and then works on the slots that value designates.                *)

ConsumerOps ==
    {"frameForPaint", "nextFrameDisplayTime", "addTimelineDelay",
     "markFrameDisplayed", "markFrameShown"}

\* renderNextFrame: counter() at the head of the switch.
BgLoad(request) ==
    /\ ~fatal
    /\ isValid(state)
    /\ bg.pc = "idle"
    /\ request = EntryRequest(state)
    /\ state.frameIndex < InterleavedMaxFrameIndex
    /\ IF renderCase(state.counter).index = -1
       THEN fatal' = TRUE /\ bg' = bg
       ELSE /\ fatal' = fatal
            /\ bg' = [pc |-> "check", c |-> state.counter, slot |-> -1,
                      request |-> request]
    /\ UNCHANGED <<state, lastPoll, cs>>
    /\ UNCHANGED <<lastPaint, rvars>>

\* The IsRendered tests of present and prerender.
BgCheck ==
    /\ ~fatal
    /\ bg.pc = "check"
    /\ LET case == renderCase(bg.c)
           target == IF case.present THEN case.index
                     ELSE prerenderTarget(state, case.index)
       IN  bg' = IF target = -1 THEN BgIdle
                 ELSE IF case.present /\ IsRendered(state.frames[target])
                 THEN [bg EXCEPT !.pc = "display", !.slot = target]
                 ELSE [bg EXCEPT !.pc = "write", !.slot = target]
    /\ UNCHANGED <<state, fatal, lastPoll, cs>>
    /\ UNCHANGED <<lastPaint, rvars>>

\* renderNextFrame(frame, request) has written the slot.
BgWrite ==
    /\ ~fatal
    /\ bg.pc = "write"
    /\ state' = renderNextFrameInto(state, bg.slot, bg.request)
    /\ bg' = IF renderCase(bg.c).present THEN [bg EXCEPT !.pc = "display"]
             ELSE BgIdle
    /\ UNCHANGED <<fatal, lastPoll, cs>>
    /\ UNCHANGED <<lastPaint, rvars>>

\* present: frame->display = countFrameDisplayTime(frame->index).
BgDisplay ==
    /\ ~fatal
    /\ bg.pc = "display"
    /\ state' = presentDisplay(state, bg.slot)
    /\ bg' = [bg EXCEPT !.pc = "store"]
    /\ UNCHANGED <<fatal, lastPoll, cs>>
    /\ UNCHANGED <<lastPaint, rvars>>

\* present: the release store of the counter.
BgStore ==
    /\ ~fatal
    /\ bg.pc = "store"
    /\ state' = presentStore(state, bg.c)
    /\ bg' = BgIdle
    /\ UNCHANGED <<fatal, lastPoll, cs>>
    /\ UNCHANGED <<lastPaint, rvars>>

\* A consumer call loads the counter.
CsLoad(op, a1, a2) ==
    /\ ~fatal
    /\ cs.pc = "idle"
    /\ op = "frameForPaint" \/ isValid(state)
    /\ op = "addTimelineDelay" =>
          /\ state.delay + a1 <= MaxDelay
          /\ state.skippedFrames + a2 <= MaxSkipped
    /\ op = "markFrameDisplayed" => NowPossible(state, a1)
    /\ cs' = [pc |-> "access", op |-> op, c |-> state.counter,
              a1 |-> a1, a2 |-> a2]
    /\ UNCHANGED <<state, fatal, lastPoll, bg>>
    /\ UNCHANGED <<lastPaint, rvars>>

\* The consumer call works on the slots its counter value designates.
CsAccess ==
    /\ ~fatal
    /\ cs.pc = "access"
    /\ LET r == CASE cs.op = "frameForPaint" ->
                        [s |-> state,
                         fatal |-> frameForPaintAt(state, cs.c).fatal]
                  [] cs.op = "nextFrameDisplayTime" ->
                        [s |-> state,
                         fatal |-> nextFrameDisplayTimeAt(state, cs.c).fatal]
                  [] cs.op = "addTimelineDelay" ->
                        addTimelineDelayAt(state, cs.c, cs.a1, cs.a2)
                  [] cs.op = "markFrameDisplayed" ->
                        markFrameDisplayedAt(state, cs.c, cs.a1)
                  [] OTHER ->
                        LET m == markFrameShownAt(state, cs.c)
                        IN  [s |-> m.s, fatal |-> m.fatal]
       IN  /\ state' = r.s
           /\ fatal' = r.fatal
    /\ cs' = CsIdle
    /\ UNCHANGED <<lastPoll, bg>>
    /\ UNCHANGED <<lastPaint, rvars>>

\* The arguments a consumer call is made with.
CallArgs(op) ==
    CASE op = "addTimelineDelay" -> DelaySet \X SkipSet
      [] op = "markFrameDisplayed" -> NowSet \X {0}
      [] OTHER -> {<<0, 0>>}

NextInterleaved ==
    \/ \E owner \in Owners, a \in StartArgs :
            bg.pc = "idle" /\ cs.pc = "idle" /\ Start(owner, a[1], a[2], a[3])
    \/ \E request \in Requests : BgLoad(request)
    \/ BgCheck
    \/ BgWrite
    \/ BgDisplay
    \/ BgStore
    \/ \E op \in ConsumerOps : \E a \in CallArgs(op) : CsLoad(op, a[1], a[2])
    \/ CsAccess

SpecInterleaved == Init /\ [][NextInterleaved]_vars

----------------------------------------------------------------------------
(* The FrameRenderer with two states. Players call the facade from the     *)
(* main thread, the renderer's queue runs the posted closures in order,    *)
(* and the main thread runs the notifications the passes post to it.       *)

svars == <<state, lastPoll, bg, cs, lastPaint>>

InitRenderer ==
    /\ state = construct(ValidSource, TRUE, NoCache, EmptyRequest)
    /\ fatal = FALSE
    /\ lastPoll = NoPoll
    /\ bg = BgIdle
    /\ cs = CsIdle
    /\ lastPaint = NoPaint
    /\ \E owner2 \in Players :
            RendererCreated(RendererStates("player", owner2))

\* A player may call the facade.
FacadeOpen ==
    /\ ~fatal
    /\ Len(queue) < MaxQueue

\* FrameRenderer::append
FacadeAppend(entry) ==
    /\ FacadeOpen
    /\ issued[entry] = "none"
    /\ states[entry].owner \in alive
    /\ queue' = with(queue, Task("append", entry, EmptyRequest))
    /\ issued' = [issued EXCEPT ![entry] = "appended"]
    /\ UNCHANGED <<svars, fatal, states, renderer, mainQueue, alive, last,
                   lastMain>>

\* FrameRenderer::frameShown
FacadeFrameShown ==
    /\ FacadeOpen
    /\ queue' = with(queue, Task("frameShown", NoEntry, EmptyRequest))
    /\ UNCHANGED <<svars, fatal, states, renderer, mainQueue, alive, issued,
                   last, lastMain>>

\* FrameRenderer::updateFrameRequest, called once for an entry between its
\* append and its remove, with a request other than the first one.
FacadeUpdateFrameRequest(entry, request) ==
    /\ FacadeOpen
    /\ entry \in Followed
    /\ issued[entry] = "appended"
    /\ request # ConstructRequest(entry)
    /\ queue' = with(queue, Task("updateFrameRequest", entry, request))
    /\ issued' = [issued EXCEPT ![entry] = "updated"]
    /\ UNCHANGED <<svars, fatal, states, renderer, mainQueue, alive, last,
                   lastMain>>

\* FrameRenderer::remove, called once for an entry after its append.
FacadeRemove(entry) ==
    /\ FacadeOpen
    /\ entry \in Followed
    /\ issued[entry] \in {"appended", "updated"}
    /\ queue' = with(queue, Task("remove", entry, EmptyRequest))
    /\ issued' = [issued EXCEPT ![entry] = "removed"]
    /\ UNCHANGED <<svars, fatal, states, renderer, mainQueue, alive, last,
                   lastMain>>

\* The renderer's queue is about to run a closure that calls `op`.
Runs(op) ==
    /\ ~fatal
    /\ queue # <<>>
    /\ Head(queue).op = op

\* What the queue records of the closure it ran.
Ran(task, log, players, rendered) ==
    [op |-> task.op, entry |-> task.entry,
     request |-> task.request, log |-> log, players |-> players,
     rendered |-> rendered]

RunAppend ==
    /\ Runs("append")
    /\ \E task \in {Head(queue)} :
         \E r \in {append(renderer, Tail(queue), states, task.entry)} :
           /\ renderer' = r.r
           /\ queue' = r.queue
           /\ fatal' = r.fatal
           /\ last' = Ran(task, <<>>, <<>>, FALSE)
    /\ UNCHANGED <<svars, states, mainQueue, alive, issued, lastMain>>

RunFrameShown ==
    /\ Runs("frameShown")
    /\ \E task \in {Head(queue)}, r \in {frameShown(renderer, Tail(queue))} :
           /\ renderer' = r.r
           /\ queue' = r.queue
           /\ last' = Ran(task, <<>>, <<>>, FALSE)
    /\ UNCHANGED <<svars, fatal, states, mainQueue, alive, issued, lastMain>>

RunUpdateFrameRequest ==
    /\ Runs("updateFrameRequest")
    /\ \E task \in {Head(queue)} :
         \E r \in {updateFrameRequest(renderer, task.entry, task.request)} :
           /\ renderer' = r.r
           /\ fatal' = r.fatal
           /\ last' = Ran(task, <<>>, <<>>, FALSE)
    /\ queue' = Tail(queue)
    /\ UNCHANGED <<svars, states, mainQueue, alive, issued, lastMain>>

RunRemove ==
    /\ Runs("remove")
    /\ \E task \in {Head(queue)} :
         \E r \in {remove(renderer, task.entry)} :
           /\ renderer' = r.r
           /\ fatal' = r.fatal
           /\ last' = Ran(task, <<>>, <<>>, FALSE)
    /\ queue' = Tail(queue)
    /\ UNCHANGED <<svars, states, mainQueue, alive, issued, lastMain>>

\* The closure posted by queueGenerateFrames: it clears _queued and runs
\* the pass.
RunGenerateFrames ==
    /\ Runs("generateFrames")
    /\ \E task \in {Head(queue)},
          r \in {generateFrames([renderer EXCEPT !.queued = FALSE],
                                Tail(queue), mainQueue, states, alive)} :
           /\ renderer' = r.r
           /\ queue' = r.queue
           /\ mainQueue' = r.mainQueue
           /\ states' = r.states
           /\ fatal' = r.fatal
           /\ last' = Ran(task, r.log, r.players, r.rendered)
    /\ UNCHANGED <<svars, alive, issued, lastMain>>

\* The renderer's queue runs its first closure.
RunQueue ==
    \/ RunAppend
    \/ RunFrameShown
    \/ RunUpdateFrameRequest
    \/ RunRemove
    \/ RunGenerateFrames

\* The main thread runs the notification a pass has posted.
MainNotify ==
    /\ ~fatal
    /\ mainQueue # <<>>
    /\ lastMain' = [players |-> Head(mainQueue),
                    living |-> alive,
                    checked |-> NotifyPlayers(Head(mainQueue), alive)]
    /\ mainQueue' = Tail(mainQueue)
    /\ UNCHANGED <<svars, fatal, states, renderer, queue, alive, issued,
                   last>>

\* The player of a state that is not followed is destroyed; the weak
\* pointers to it are reset.
PlayerDestroyed(player) ==
    /\ ~fatal
    /\ player \in alive
    /\ \E entry \in Ids \ Followed : states[entry].owner = player
    /\ alive' = alive \ {player}
    /\ UNCHANGED <<svars, fatal, states, renderer, queue, mainQueue, issued,
                   last, lastMain>>

\* A living player works on a state of its own that it has appended and
\* not removed.
PlayerUses(entry) ==
    /\ ~fatal
    /\ entry \in Followed
    /\ issued[entry] \in {"appended", "updated"}
    /\ states[entry].owner \in alive

\* The player marks the frame that awaits promotion as displayed.
PlayerMarkFrameDisplayed(entry, now) ==
    /\ PlayerUses(entry)
    /\ states[entry].counter \in OddCounters
    /\ LET r == markFrameDisplayed(states[entry], now)
       IN  /\ states' = [states EXCEPT ![entry] = r.s]
           /\ fatal' = r.fatal
    /\ UNCHANGED <<svars, renderer, queue, mainQueue, alive, issued, last,
                   lastMain>>

\* The player tries to move on to the frame that awaits promotion.
PlayerMarkFrameShown(entry) ==
    /\ PlayerUses(entry)
    /\ states[entry].counter < RendererMaxCounter
    /\ Len(mainQueue) < MaxMainQueue
    /\ LET r == markFrameShown(states[entry])
       IN  /\ states' = [states EXCEPT ![entry] = r.s]
           /\ fatal' = r.fatal
    /\ UNCHANGED <<svars, renderer, queue, mainQueue, alive, issued, last,
                   lastMain>>

NextRenderer ==
    \/ \E entry \in Ids : FacadeAppend(entry)
    \/ FacadeFrameShown
    \/ \E entry \in Ids, request \in Requests :
            FacadeUpdateFrameRequest(entry, request)
    \/ \E entry \in Ids : FacadeRemove(entry)
    \/ RunAppend
    \/ RunFrameShown
    \/ RunUpdateFrameRequest
    \/ RunRemove
    \/ RunGenerateFrames
    \/ MainNotify
    \/ \E player \in Players : PlayerDestroyed(player)
    \/ \E entry \in Ids, now \in RendererNowSet :
            PlayerMarkFrameDisplayed(entry, now)
    \/ \E entry \in Ids : PlayerMarkFrameShown(entry)

SpecRenderer == InitRenderer /\ [][NextRenderer]_vars

\* The runs in which the players live on and leave the requests alone.
InitRendererFair ==
    /\ state = construct(ValidSource, TRUE, NoCache, EmptyRequest)
    /\ fatal = FALSE
    /\ lastPoll = NoPoll
    /\ bg = BgIdle
    /\ cs = CsIdle
    /\ lastPaint = NoPaint
    /\ RendererCreated(RendererStates("player", "other"))

NextRendererFair ==
    \/ \E entry \in Ids : FacadeAppend(entry)
    \/ FacadeFrameShown
    \/ \E entry \in Ids : FacadeRemove(entry)
    \/ RunAppend
    \/ RunFrameShown
    \/ RunRemove
    \/ RunGenerateFrames
    \/ MainNotify
    \/ \E entry \in Ids, now \in RendererNowSet :
            PlayerMarkFrameDisplayed(entry, now)
    \/ \E entry \in Ids : PlayerMarkFrameShown(entry)

\* The renderer's queue has a closure to run: RunQueue is enabled. Every
\* closure changes the queue or, a pass that posts the next one, a state.
QueueCanRun ==
    /\ ~fatal
    /\ queue # <<>>

\* The renderer's queue and the main thread run the closures posted to
\* them: weak fairness of RunQueue, with its enabling condition written
\* out, and WF of MainNotify.
SpecRendererFair ==
    /\ InitRendererFair
    /\ [][NextRendererFair]_vars
    /\ ([]<>~QueueCanRun \/ []<><<RunQueue>>_vars)
    /\ WF_vars(MainNotify)

----------------------------------------------------------------------------
(* The player paints. Its frame(request) takes the slot frameForPaint      *)
(* returns and prepares the image; when the request differs from the       *)
(* slot's it stores the request in the slot and hands it to the renderer   *)
(* with updateFrameRequest, so that the next frames are rendered with it.  *)

\* In the painting runs renderNextFrame is not called once _frameIndex has
\* reached this value.
PaintMaxFrameIndex == 4
\* In the painting runs the player asks for a frame at most this many times.
MaxPaints == 2

\* Boxes that are empty, that match a 2 x 2 or a 2 x 1 image on one axis or
\* on both, and that match on none, each with and without a recolor.
PaintRequests ==
    {EmptyRequest, MkRequest(0, 0, "red"),
     MkRequest(2, 5, NoColor), MkRequest(2, 5, "red"),
     MkRequest(2, 2, NoColor),
     MkRequest(1, 1, NoColor), MkRequest(1, 1, "red")}

PaintNowSet == {5}

\* The player's frame(request): the slot after the call and what
\* PrepareFrameByRequest returned.
prepareForRequest(frame, request) ==
    LET changed == frame.request # request
    IN  PrepareFrameByRequest([frame EXCEPT !.request = request], ~changed)

InitPaint ==
    /\ state \in {construct(ValidSource, TRUE, NoCache, EmptyRequest),
                  construct(SlowSource, TRUE, NoCache, MkRequest(1, 1, "red"))}
    /\ fatal = FALSE
    /\ lastPoll = NoPoll
    /\ bg = BgIdle
    /\ cs = CsIdle
    /\ lastPaint = [NoPaint EXCEPT !.entry = EntryRequest(state)]
    /\ RendererCreated(RendererStates("player", "player"))

\* renderNextFrame with the request of the renderer's entry: the one of the
\* state's first frame, or the last one updateFrameRequest was given.
PaintRender ==
    /\ ~fatal
    /\ isValid(state)
    /\ initialized(state)
    /\ state.frameIndex < PaintMaxFrameIndex
    /\ \E r \in {renderNextFrame(state, lastPaint.entry)} :
            /\ state' = r.s
            /\ fatal' = r.fatal
    /\ UNCHANGED <<lastPoll, bg, cs, lastPaint>>
    /\ UNCHANGED rvars

\* The player's frame(request).
Paint(request) ==
    /\ ~fatal
    /\ isValid(state)
    /\ lastPaint.count < MaxPaints
    /\ \E painted \in {frameForPaint(state)} :
         IF painted.fatal
         THEN /\ fatal' = TRUE
              /\ UNCHANGED <<state, lastPaint>>
         ELSE \E r \in {prepareForRequest(state.frames[painted.slot],
                                          request)} :
                /\ state' = [state EXCEPT !.frames[painted.slot] = r.frame]
                /\ lastPaint' =
                      [slot |-> painted.slot, request |-> request,
                       before |-> state.frames[painted.slot],
                       image |-> r.image, returned |-> r.returned,
                       computed |-> r.computed,
                       entry |->
                          IF request # state.frames[painted.slot].request
                          THEN request ELSE lastPaint.entry,
                       count |-> lastPaint.count + 1]
                /\ fatal' = fatal
    /\ UNCHANGED <<lastPoll, bg, cs>>
    /\ UNCHANGED rvars

\* The consumer marks the pending frame and promotes it.
PaintShow(now) ==
    /\ ~fatal
    /\ state.counter \in OddCounters
    /\ \E marked \in {markFrameDisplayed(state, now)} :
       \E shown \in {markFrameShown(marked.s)} :
            /\ state' = shown.s
            /\ fatal' = (marked.fatal \/ shown.fatal)
    /\ UNCHANGED <<lastPoll, bg, cs, lastPaint>>
    /\ UNCHANGED rvars

NextPaint ==
    \/ \E owner \in Owners : Start(owner, 0, 0, 0)
    \/ PaintRender
    \/ \E request \in PaintRequests : Paint(request)
    \/ \E now \in PaintNowSet : PaintShow(now)

SpecPaint == InitPaint /\ [][NextPaint]_vars

----------------------------------------------------------------------------
(* Properties.                                                             *)

\* A valid, started state on which no assertion has failed.
Running == ~fatal /\ isValid(state) /\ initialized(state)

\* The slot awaiting promotion at an odd counter.
PendingFrame(s) == s.frames[nextIndex(s.counter)]

\* The slots renderNextFrame renders into in a step of the model.
RenderedInStep ==
    {i \in Slots : /\ state'.frames[i] # state.frames[i]
                   /\ state'.frameIndex = state.frameIndex + 1
                   /\ state'.frames[i].index = state'.frameIndex}

\* The slots the renderer is examining (IsRendered reads displayed).
BgReadSlots ==
    IF bg.pc # "check" THEN {}
    ELSE LET case == renderCase(bg.c)
         IN  IF case.present THEN {case.index}
             ELSE {case.index, (case.index + 1) % kFramesCount}

\* The slot the renderer is writing: from the start of the render into it to
\* the write of its display time, all before the store of the counter.
BgWriteSlots ==
    IF bg.pc \in {"write", "display"} THEN {bg.slot} ELSE {}

\* The slots a consumer call reaches through the counter value c.
ReachableSlots(c) ==
    IF c \in OddCounters THEN {c \div 2, nextIndex(c)}
    ELSE IF c \in EvenCounters THEN {c \div 2}
    ELSE {0}

\* The slots the consumer call in progress reads, and those it writes
\* (displayed in markFrameDisplayed, display in addTimelineDelay).
CsReadSlots ==
    IF cs.pc # "access" THEN {}
    ELSE IF cs.op = "frameForPaint" THEN {CDiv(cs.c, 2)}
    ELSE IF cs.c \notin OddCounters THEN {}
    ELSE IF cs.op = "addTimelineDelay" /\ cs.a1 = 0 /\ cs.a2 = 0 THEN {}
    ELSE {nextIndex(cs.c)}

CsWriteSlots ==
    IF cs.pc = "access" /\ cs.op \in {"addTimelineDelay", "markFrameDisplayed"}
    THEN CsReadSlots
    ELSE {}

\* C1: in every interleaving of the steps of renderNextFrame with the
\* consumer's calls on a started valid state, the renderer is never writing a
\* slot the consumer call in progress works on or one the consumer can reach
\* through the current counter, never examines a slot the consumer is
\* writing, and every slot reachable through the counter the consumer has
\* loaded was written in full (image, index and, when promoted, display
\* time) before that counter value was stored.
C1_NoRace ==
    (isValid(state) /\ initialized(state)) =>
        /\ BgWriteSlots \cap (CsReadSlots \cup CsWriteSlots) = {}
        /\ BgReadSlots \cap CsWriteSlots = {}
        /\ BgWriteSlots \cap ReachableSlots(state.counter) = {}
        /\ cs.pc = "access" =>
              /\ cs.c \in 0 .. 7
              /\ BgWriteSlots \cap ReachableSlots(cs.c) = {}
              /\ \A i \in ReachableSlots(cs.c) :
                    /\ ~state.frames[i].original.isNull
                    /\ state.frames[i].original.frame =
                           state.frames[i].index % state.framesCount
                    /\ (state.frames[i].index > 0
                        /\ state.frames[i].displayed = kTimeUnknown) =>
                           state.frames[i].display =
                               countFrameDisplayTime(state,
                                                     state.frames[i].index)

\* C1 witness: the consumer is reading the frame to paint through the
\* counter value it loaded while the renderer is in the middle of writing
\* a look-ahead slot, after the ring has been reused.
C1_Witness ==
    /\ ~fatal
    /\ cs.pc = "access"
    /\ cs.op = "frameForPaint"
    /\ bg.pc = "write"
    /\ state.frames[bg.slot].index > 0
    /\ state.counter # bg.c

\* C2: on a valid started state, at every counter value that calls respecting
\* the phase contract can reach, frameForPaint returns a slot with an image
\* and with displayed set: neither of its assertions fails.
C2_FrameForPaintSafe ==
    Running =>
        LET r == frameForPaint(state)
        IN  /\ ~r.fatal
            /\ r.slot = state.counter \div 2
            /\ ~state.frames[r.slot].original.isNull
            /\ state.frames[r.slot].displayed # kTimeUnknown

\* C2 witness: the ring has wrapped, slot 0 was rendered into again and is
\* the slot frameForPaint returns.
C2_Witness ==
    /\ Running
    /\ state.counter = 0
    /\ state.frames[0].index >= kFramesCount
    /\ frameForPaint(state).slot = 0

\* C3 as claimed: every slot written by renderNextFrame gets the index
\* (frameIndex + 1) mod framesCount, so that the indices cycle through
\* 0 .. framesCount - 1.
C3_Claimed ==
    [][\A i \in RenderedInStep :
          state'.frames[i].index =
              (state.frameIndex + 1) % state.framesCount]_vars

\* C3 amended: each successful renderNextFrame writes exactly one slot; the
\* animation frame drawn into it is (frameIndex + 1) mod framesCount, which
\* cycles 1, 2, ..., framesCount - 1, 0, 1, ... after the cover frame 0, and
\* the index stored in the slot is frameIndex + 1 itself, which is not
\* reduced modulo framesCount and grows by one with every written slot.
C3_IndexSequence ==
    [][(state'.frameIndex # state.frameIndex) =>
          /\ state'.frameIndex = state.frameIndex + 1
          /\ Cardinality(RenderedInStep) = 1
          /\ \A i \in RenderedInStep :
                /\ state'.frames[i].index = state.frameIndex + 1
                /\ state'.frames[i].original.frame =
                       (state.frameIndex + 1) % state.framesCount
                /\ ~state'.frames[i].original.isNull]_vars

\* C3 witness: a slot holds an index beyond framesCount - 1 whose animation
\* frame has wrapped around.
C3_Witness ==
    /\ Running
    /\ \E i \in Slots :
          /\ state.frames[i].index = state.frameIndex
          /\ state.frames[i].index > state.framesCount
          /\ state.frames[i].original.frame = 1

\* C4 as claimed: without an addTimelineDelay call in between, every value
\* nextFrameDisplayTime returns is at least the value an earlier poll
\* returned.
C4_Claimed ==
    (Running /\ lastPoll.hasReal) =>
        nextFrameDisplayTime(state).time >= lastPoll.real

\* C4 amended: without an addTimelineDelay call in between, the display
\* timestamps nextFrameDisplayTime returns are non-decreasing: a poll that
\* returns a timestamp returns at least the timestamp of every earlier poll.
\* The polls that return a sentinel (kTimeUnknown at an even counter,
\* kFrameDisplayTimeAlreadyDone once the pending frame is displayed) lie
\* between them and are not ordered with them.
C4_TimestampsNonDecreasing ==
    (Running /\ lastPoll.hasReal) =>
        LET r == nextFrameDisplayTime(state)
        IN  /\ ~r.fatal
            /\ IsTimestamp(r.time) => r.time >= lastPoll.real

\* C4 witness: two polls without an addTimelineDelay call in between
\* returned timestamps, the later one the larger, and a poll now returns that
\* timestamp again.
C4_Witness ==
    /\ Running
    /\ lastPoll.rose
    /\ nextFrameDisplayTime(state).time = lastPoll.real

\* The slots the renderer has promoted: the one presented, unless it still
\* holds the cover frame of the constructor, and at an odd counter the one
\* awaiting the consumer.
PromotedSlots(s) ==
    IF ~initialized(s) THEN {}
    ELSE {i \in Slots :
            /\ s.frames[i].index > 0
            /\ \/ i = s.counter \div 2
               \/ s.counter \in OddCounters /\ i = nextIndex(s.counter)}

\* C5 as claimed: in the scenario the promoted frames carry the indices
\* 0 .. 29, the frame after index 29 carrying index 0 again, and their
\* display timestamps are 1000 * index / 30.
C5_Claimed ==
    \A i \in PromotedSlots(state) :
        /\ state.frames[i].index \in 0 .. 29
        /\ state.frames[i].display = (1000 * state.frames[i].index) \div 30

\* C5 amended: in the scenario the frames renderNextFrame promotes carry the
\* indices 1, 2, 3, ... without a wrap (the cover frame 0 of the constructor
\* never gets a display timestamp); a frame with index i shows animation
\* frame i mod 30 and its display timestamp is 1000 * i / 30 in integer
\* division (33, 66, ..., 966 for 1 .. 29), so the frame after index 29
\* carries index 30, shows animation frame 0 and is displayed at 1000, not
\* at 0: there is no accumulated drift and no restart of the timestamps.
C5_Scenario ==
    /\ \A i \in PromotedSlots(state) :
        /\ state.frames[i].index \in 1 .. ScenarioMaxFrameIndex
        /\ state.frames[i].display = (1000 * state.frames[i].index) \div 30
        /\ state.frames[i].original.frame = state.frames[i].index % 30
        /\ state.frames[i].index = 29 => state.frames[i].display = 966
        /\ state.frames[i].index = 30 => state.frames[i].display = 1000
    /\ state.frames[0].index = 0 => state.frames[0].display = kTimeUnknown

\* C5 witness: the frame after index 29 is promoted.
C5_Witness ==
    /\ Running
    /\ \E i \in PromotedSlots(state) :
          /\ state.frames[i].index = 30
          /\ state.frames[i].original.frame = 0

\* The case of C6: an odd counter whose pending slot is not displayed yet.
PendingNotDisplayed ==
    /\ Running
    /\ state.counter \in OddCounters
    /\ PendingFrame(state).displayed = kTimeUnknown

\* C6 as claimed: after addTimelineDelay(d, s) on a pending frame that is not
\* displayed, nextFrameDisplayTime returns its previous value plus d, for
\* every s.
C6_Claimed ==
    PendingNotDisplayed =>
        \A d \in DelaySet, s \in SkipSet :
            LET r == addTimelineDelay(state, d, s)
            IN  /\ ~r.fatal
                /\ nextFrameDisplayTime(r.s).time =
                       nextFrameDisplayTime(state).time + d

\* C6 amended: after addTimelineDelay(d, s) on a pending frame that is not
\* displayed, nextFrameDisplayTime returns its previous value plus d plus
\* the shift of the skipped frames,
\* 1000 * (skipped + s + index) / rate - 1000 * (skipped + index) / rate;
\* it is the previous value plus d exactly when s = 0.
C6_DelayShift ==
    PendingNotDisplayed =>
        \A d \in DelaySet, s \in SkipSet :
            LET r == addTimelineDelay(state, d, s)
                before == nextFrameDisplayTime(state).time
                after == nextFrameDisplayTime(r.s).time
                index == PendingFrame(state).index
                skip ==
                    CDiv(1000 * (state.skippedFrames + s + index),
                         state.frameRate)
                    - CDiv(1000 * (state.skippedFrames + index),
                           state.frameRate)
            IN  /\ ~r.fatal
                /\ IsTimestamp(before)
                /\ after = before + d + skip
                /\ s = 0 => after = before + d
                /\ s > 0 => after > before + d

\* C6 witness: started without delay, the timeline was delayed by one and by
\* one skipped frame, and the pending frame carries the shifted timestamp.
C6_Witness ==
    /\ PendingNotDisplayed
    /\ state.started = 0
    /\ state.delay = 1
    /\ state.skippedFrames = 1
    /\ PendingFrame(state).display =
           1 + CDiv(1000 * (1 + PendingFrame(state).index), state.frameRate)

\* C7: markFrameDisplayed(now) at an odd counter sets displayed of the pending
\* slot only if it is still unknown, a later mark in the same phase changes
\* nothing, and nothing but that field is modified.
C7_FirstMarkSticks ==
    (Running /\ state.counter \in OddCounters) =>
        \A now \in NowSet, later \in NowSet :
            LET index == ((state.counter + 1) % 8) \div 2
                r == markFrameDisplayed(state, now)
                again == markFrameDisplayed(r.s, later)
                old == state.frames[index].displayed
            IN  /\ ~r.fatal
                /\ r.s.frames[index].displayed =
                       IF old = kTimeUnknown THEN now ELSE old
                /\ r.s = [state EXCEPT !.frames[index].displayed =
                                            r.s.frames[index].displayed]
                /\ ~again.fatal
                /\ again.s = r.s

\* C7 witness: the pending slot holds the first of two possible marks.
C7_Witness ==
    /\ Running
    /\ state.counter \in OddCounters
    /\ PendingFrame(state).displayed = 5
    /\ markFrameDisplayed(state, 6).s = state

\* C8: markFrameShown returns true and stores (c + 1) mod 8 exactly when the
\* counter c is odd and the pending slot is displayed; otherwise it returns
\* false and changes nothing.
C8_MarkFrameShown ==
    Running =>
        LET c == state.counter
            r == markFrameShown(state)
            ready == /\ c % 2 = 1
                     /\ state.frames[((c + 1) % 8) \div 2].displayed
                            # kTimeUnknown
        IN  /\ ~r.fatal
            /\ r.shown = ready
            /\ ready => r.s = [state EXCEPT !.counter = (c + 1) % 8]
            /\ ~ready => r.s = state

\* C8 witness: markFrameShown has advanced the counter from 7 to 0, and
\* returns false there.
C8_Witness ==
    /\ Running
    /\ state.counter = 0
    /\ state.frameIndex >= kFramesCount
    /\ ~markFrameShown(state).shown

\* C9: renderNextFrame returns the owner as notify handle exactly when it
\* advanced the counter from an even value to the next odd one, and then
\* rendered is true; at an odd counter it returns no handle and keeps the
\* counter; rendered is false exactly when no slot was written.
C9_RenderResult ==
    Running =>
        \A request \in Requests :
            LET c == state.counter
                r == renderNextFrame(state, request)
                promoted == c % 2 = 0 /\ r.s.counter = c + 1
            IN  /\ ~r.fatal
                /\ (r.notify # NoOwner) = promoted
                /\ promoted => r.notify = state.owner /\ r.rendered
                /\ c % 2 = 0 => promoted
                /\ c % 2 = 1 => r.notify = NoOwner /\ r.s.counter = c
                /\ (~r.rendered) = (r.s.frames = state.frames)
                /\ ~r.rendered => r.s = state

\* C9 witness: a frame was promoted and both look-ahead slots are rendered,
\* so that the next call returns rendered = false.
C9_Witness ==
    /\ Running
    /\ state.counter \in OddCounters
    /\ state.frameIndex >= 3
    /\ ~renderNextFrame(state, EmptyRequest).rendered

\* No slot has been promoted yet: the state is not started, or it is started
\* and renderNextFrame has not run.
BeforePromotion ==
    /\ ~fatal
    /\ state.counter \in {kCounterUninitialized, 0}
    /\ state.frameIndex = 0

\* C10 as claimed: frameForPaint before any promotion fails an assertion.
C10_Claimed ==
    BeforePromotion => frameForPaint(state).fatal

\* C10 amended: before any promotion (never started, or started with the
\* counter still 0) frameForPaint of a valid state returns slot 0, which
\* holds the cover frame the constructor rendered for the construction
\* request; it fails an assertion only on an invalid state, whose slot 0
\* has no image.
C10_FrameForPaintBeforePromotion ==
    BeforePromotion =>
        LET r == frameForPaint(state)
        IN  /\ r.fatal = ~isValid(state)
            /\ isValid(state) =>
                  /\ r.slot = 0
                  /\ ~state.frames[0].original.isNull
                  /\ state.frames[0].original.frame = 0
                  /\ state.frames[0].index = 0

\* C10 witness: a valid state that was never started.
C10_Witness ==
    /\ BeforePromotion
    /\ isValid(state)
    /\ ~initialized(state)
    /\ frameForPaint(state).slot = 0

----------------------------------------------------------------------------
\* C11: a call that violates the phase contract ends in the fatal state and
\* never returns: on a state whose counter is still kCounterUninitialized
\* renderNextFrame, nextFrameDisplayTime and markFrameShown are fatal, and at
\* every even counter markFrameDisplayed, and addTimelineDelay with a
\* non-zero argument, are fatal.
C11_PhaseViolationsFatal ==
    /\ ~initialized(state) =>
          /\ \A request \in Requests : renderNextFrame(state, request).fatal
          /\ nextFrameDisplayTime(state).fatal
          /\ markFrameShown(state).fatal
    /\ state.counter \in EvenCounters =>
          /\ \A now \in NowSet : markFrameDisplayed(state, now).fatal
          /\ \A delayed \in DelaySet, skippedFrames \in SkipSet :
                (delayed # 0 \/ skippedFrames # 0) =>
                    addTimelineDelay(state, delayed, skippedFrames).fatal

\* A valid started state at an even counter whose slot was promoted and
\* shown at least once, on which such a call has ended fatally.
C11_Witness ==
    /\ fatal
    /\ isValid(state)
    /\ state.counter \in EvenCounters \ {0}

----------------------------------------------------------------------------
\* C20: isValid holds exactly when framesCount > 0, frameRate > 0 and the
\* size is not empty, and an invalid state is inert: its slot 0 has no image
\* after construction, renderFrame leaves the image, the cache and the
\* decoder as they were, and information returns the empty record.
C20_InvalidInert ==
    LET valid == /\ state.framesCount > 0
                 /\ state.frameRate > 0
                 /\ ~SizeIsEmpty(state.size)
    IN  /\ isValid(state) <=> valid
        /\ ~valid =>
              /\ state.frames[0].original.isNull
              /\ \A request \in Requests, index \in 0 .. 2,
                     image \in {NullImage, CreateFrameStorage(MkSize(2, 2))} :
                    renderFrame(state, image, request, index)
                        = [s |-> state, image |-> image]
              /\ information(state) = EmptyInformation
        /\ valid =>
              /\ ~state.frames[0].original.isNull
              /\ information(state).framesCount = state.framesCount

\* An invalid state built over a cache that holds a first frame, on which a
\* call has been made.
C20_Witness ==
    /\ ~isValid(state)
    /\ state.cache.exists
    /\ ~state.cache.firstFrame.isNull
    /\ fatal

----------------------------------------------------------------------------
(* Properties of the FrameRenderer runs.                                   *)

\* The closures of a kind waiting on the renderer's queue.
Posted(op) == {i \in 1 .. Len(queue) : queue[i].op = op}

\* The step is the renderer's queue running a generation pass.
PassStep ==
    /\ Runs("generateFrames")
    /\ \/ queue' = Tail(queue)
       \/ \E id \in Ids : states'[id].frameIndex # states[id].frameIndex

\* The step is the renderer's queue running the named entry call.
EntryStep(op) ==
    /\ Runs(op)
    /\ queue' = Tail(queue)

\* The entry is in _entries.
Registered(entry) == FindEntry(renderer.entries, entry) # 0

\* The states whose remove the renderer's queue has run.
Removed ==
    {id \in Ids :
        /\ issued[id] = "removed"
        /\ \A i \in Posted("remove") : queue[i].entry # id}

\* The elements of a sequence.
Range(seq) == {seq[i] : i \in 1 .. Len(seq)}

NoDuplicates(seq) ==
    \A i, j \in 1 .. Len(seq) : i # j => seq[i] # seq[j]

\* C12: the notification a pass hands to the main thread names exactly the
\* living owners of the entries it promoted, each once also when entries
\* share their owner, and names no owner when it promoted none; when the
\* main thread runs it, checkStep is called once on each of the named
\* players that is still alive then, and on no other.
C12_NotifyOncePerPass ==
    /\ last.op = "generateFrames" =>
          /\ Range(last.players)
                = {last.log[i].notify : i \in 1 .. Len(last.log)} \ {NoOwner}
          /\ NoDuplicates(last.players)
          /\ \A i \in 1 .. Len(last.log) :
                LET owner == states[last.log[i].entry].owner
                IN  /\ last.log[i].notify \in {NoOwner, owner}
                    /\ last.log[i].notify # NoOwner => last.log[i].promoted
                    /\ last.log[i].promoted /\ owner \in alive
                            => last.log[i].notify = owner
    /\ NoDuplicates(lastMain.checked)
    /\ Range(lastMain.checked) = Range(lastMain.players) \cap lastMain.living
    /\ \A i \in 1 .. Len(mainQueue) :
          mainQueue[i] # <<>> /\ NoDuplicates(mainQueue[i])

\* One pass promoted two entries of the same player, and the player got
\* its one checkStep.
C12_Witness ==
    /\ last.op = "generateFrames"
    /\ Len(last.log) = 2
    /\ last.log[1].notify = "player"
    /\ last.log[2].notify = "player"
    /\ lastMain.players = <<"player">>
    /\ lastMain.checked = <<"player">>
    /\ mainQueue = <<>>

C14_NoPassAfterRemove ==
    [][/\ PassStep =>
            \A i \in 1 .. Len(last'.log) : last'.log[i].entry \notin Removed
       /\ EntryStep("remove") =>
            LET entry == Head(queue).entry
            IN  /\ renderer'.entries =
                        SelectSeq(renderer.entries,
                                  LAMBDA e : e.state # entry)
                /\ Len(renderer'.entries) = Len(renderer.entries) - 1
                /\ states' = states
                /\ renderer'.queued = renderer.queued
      ]_vars

\* A pass posted before the remove ran has run after it, over the entry
\* that is left.
C14_Witness ==
    /\ last.op = "generateFrames"
    /\ Removed # {}
    /\ Len(last.log) = 1
    /\ last.log[1].rendered
    /\ \E id \in Removed : states[id].frameIndex > 0

\* C15: with the renderer's queue running, once frameShown is posted for a
\* registered state whose counter is even, the counter becomes odd (the
\* next frame is promoted), unless the entry is removed first.
C15_FrameShownLeadsToPromotion ==
    \A entry \in Followed :
        (/\ Posted("frameShown") # {}
         /\ Registered(entry)
         /\ states[entry].counter \in EvenCounters)
        ~> (\/ states[entry].counter \in OddCounters
            \/ issued[entry] = "removed")

\* markFrameShown has moved the state to an even counter and frameShown is
\* posted to an idle renderer.
C15_Witness ==
    /\ queue = <<Task("frameShown", NoEntry, EmptyRequest)>>
    /\ ~renderer.queued
    /\ \E entry \in Followed :
          /\ Registered(entry)
          /\ states[entry].counter \in EvenCounters \ {0}

\* What renderNextFrame does when it is called n times in a row with no
\* call of the player in between: promotions, prerenders, and whether the
\* last call rendered nothing.
RECURSIVE RendersInARow(_, _, _, _)
RendersInARow(s, request, n, acc) ==
    IF n = 0 \/ acc.idle THEN acc
    ELSE LET result == renderNextFrame(s, request)
         IN  RendersInARow(result.s, request, n - 1,
                [promotions |-> acc.promotions
                                + (IF result.notify # NoOwner THEN 1 ELSE 0),
                 prerenders |-> acc.prerenders
                                + (IF result.rendered
                                      /\ result.notify = NoOwner
                                   THEN 1 ELSE 0),
                 idle |-> ~result.rendered])

\* The renderer has nothing to do and nothing posted.
RendererIdle ==
    /\ queue = <<>>
    /\ ~renderer.queued

\* A call of a player: of the facade, or on a state.
PlayerCall ==
    \/ \E entry \in Ids : FacadeAppend(entry)
    \/ FacadeFrameShown
    \/ \E entry \in Ids, request \in Requests :
            FacadeUpdateFrameRequest(entry, request)
    \/ \E entry \in Ids : FacadeRemove(entry)
    \/ \E entry \in Ids, now \in RendererNowSet :
            PlayerMarkFrameDisplayed(entry, now)
    \/ \E entry \in Ids : PlayerMarkFrameShown(entry)

\* C16: left alone by the players, a registered state promotes at most one
\* frame and prerenders at most two before renderNextFrame renders nothing,
\* and the renderer, unless the players keep calling, comes to rest with no
\* pass posted.
C16_PassesTerminate ==
    /\ [](\A i \in 1 .. Len(renderer.entries) :
            LET entry == renderer.entries[i]
                run == RendersInARow(states[entry.state], entry.request, 4,
                          [promotions |-> 0, prerenders |-> 0,
                           idle |-> FALSE])
            IN  /\ run.idle
                /\ run.promotions <= 1
                /\ run.prerenders <= 2)
    /\ ([]<><<PlayerCall>>_vars \/ <>[]RendererIdle)

\* The renderer at rest after the passes have rendered three frames ahead
\* for both entries.
C16_Witness ==
    /\ RendererIdle
    /\ last.op = "generateFrames"
    /\ Len(renderer.entries) = 2
    /\ \A id \in Ids : states[id].frameIndex = 3

\* C17: running updateFrameRequest replaces the request of that entry and
\* nothing else: no state and no slot changes, no pass is posted; every
\* pass calls renderNextFrame on each entry with the request the entry
\* holds, and an entry's request changes only by its own update.
C17_UpdateFrameRequest ==
    [][/\ EntryStep("updateFrameRequest") =>
            LET task == Head(queue)
                i == FindEntry(renderer.entries, task.entry)
            IN  /\ i # 0
                /\ renderer' = [renderer EXCEPT
                                    !.entries[i].request = task.request]
                /\ states' = states
                /\ mainQueue' = mainQueue
                /\ Posted("generateFrames")' = {}
                        <=> Posted("generateFrames") = {}
       /\ PassStep =>
            /\ Len(last'.log) = Len(renderer.entries)
            /\ \A i \in 1 .. Len(renderer.entries) :
                  /\ last'.log[i].entry = renderer.entries[i].state
                  /\ last'.log[i].request = renderer.entries[i].request
       /\ \A i \in 1 .. Len(renderer.entries),
             j \in 1 .. Len(renderer'.entries) :
            (/\ renderer.entries[i].state = renderer'.entries[j].state
             /\ renderer.entries[i].request # renderer'.entries[j].request)
            => (/\ EntryStep("updateFrameRequest")
                /\ Head(queue).entry = renderer.entries[i].state)
      ]_vars

\* A pass has rendered a frame of an entry that is not the first with the
\* request a call of updateFrameRequest gave it.
C17_Witness ==
    /\ last.op = "generateFrames"
    /\ Len(last.log) = 2
    /\ last.log[2].entry \in Followed
    /\ last.log[2].request # ConstructRequest(last.log[2].entry)
    /\ last.log[2].rendered
    /\ \E slot \in Slots :
          states[last.log[2].entry].frames[slot].request
                # ConstructRequest(last.log[2].entry)

\* C18: the queue runs the facade's calls in the order they were made, so
\* when it runs updateFrameRequest or remove for an entry, the entry is in
\* _entries and the lookup assertion holds.
C18_LookupsSucceed ==
    [][(EntryStep("updateFrameRequest") \/ EntryStep("remove")) =>
            /\ Registered(Head(queue).entry)
            /\ ~fatal'
      ]_vars

\* A remove has run without failing after passes have rendered frames of
\* its entry.
C18_Witness ==
    /\ last.op = "remove"
    /\ ~fatal
    /\ states[last.entry].frameIndex > 0
    /\ ~Registered(last.entry)

\* C19: at most one pass is posted at any time, and _queued is set exactly
\* while one is.
C19_OnePassPending ==
    /\ Cardinality(Posted("generateFrames")) <= 1
    /\ renderer.queued <=> Posted("generateFrames") # {}

\* frameShown has run while a pass was posted; the pass that was posted
\* is the only one.
C19_Witness ==
    /\ last.op = "frameShown"
    /\ renderer.queued
    /\ Len(queue) = 2
    /\ queue[1] = GenerateTask
    /\ queue[2] # GenerateTask

----------------------------------------------------------------------------
(* Properties of the painting runs.                                        *)

\* The box of the request equals the size of the image on at least one axis.
MatchesOnAnAxis(request, image) ==
    request.box.w = image.w \/ request.box.h = image.h

\* A paint has happened.
Painted == lastPaint.slot # -1

\* PrepareFrameByRequest returned the slot's original and left the slot's
\* prepared image alone.
ReturnsOriginal(frame, r) ==
    /\ r.returned = "original"
    /\ r.image = frame.original
    /\ ~r.computed
    /\ r.frame.prepared = frame.prepared

\* C21 as claimed: whenever the box of the request is empty or equals the
\* size of the decoded image on at least one axis, with or without a recolor,
\* the player's paint gets the original and nothing is prepared.
C21_Claimed ==
    (/\ Painted
     /\ \/ SizeIsEmpty(lastPaint.request.box)
        \/ MatchesOnAnAxis(lastPaint.request, lastPaint.before.original)) =>
        /\ lastPaint.returned = "original"
        /\ lastPaint.image = lastPaint.before.original
        /\ ~lastPaint.computed

\* C21 amended: preparing the frame returns the original decoded image
\* unmodified and leaves the slot's prepared image untouched if the box of
\* the request is empty, with or without a recolor, or if the request has no
\* recolor and its box equals the size of the decoded image on at least one
\* axis, and so did the last paint of the player; a request with a box that
\* is not empty and with a recolor gets a derived image.
C21_OriginalWhenGood ==
    /\ \A i \in Slots, request \in PaintRequests, use \in BOOLEAN :
        LET frame == [state.frames[i] EXCEPT !.request = request]
        IN  (/\ ~frame.original.isNull
             /\ \/ SizeIsEmpty(request.box)
                \/ /\ request.colored = NoColor
                   /\ MatchesOnAnAxis(request, frame.original)) =>
                ReturnsOriginal(frame, PrepareFrameByRequest(frame, use))
    /\ \A i \in Slots, request \in PaintRequests, use \in BOOLEAN :
        LET frame == [state.frames[i] EXCEPT !.request = request]
        IN  (/\ ~frame.original.isNull
             /\ ~SizeIsEmpty(request.box)
             /\ request.colored # NoColor) =>
                PrepareFrameByRequest(frame, use).returned = "prepared"
    /\ (/\ Painted
        /\ \/ SizeIsEmpty(lastPaint.request.box)
           \/ /\ lastPaint.request.colored = NoColor
              /\ MatchesOnAnAxis(lastPaint.request,
                                 lastPaint.before.original)) =>
            /\ lastPaint.returned = "original"
            /\ lastPaint.image = lastPaint.before.original
            /\ ~lastPaint.computed

\* C21 witness: the player painted a 2 x 2 frame with a box that matches it
\* in width only and without a recolor, and got the original although the
\* slot holds a prepared image from an earlier paint.
C21_Witness ==
    /\ Painted
    /\ lastPaint.request = MkRequest(2, 5, NoColor)
    /\ ImageSize(lastPaint.before.original) = MkSize(2, 2)
    /\ ~lastPaint.before.prepared.isNull
    /\ lastPaint.returned = "original"
    /\ state.frames[lastPaint.slot].prepared = lastPaint.before.prepared

\* The request for the image at its own size, without a recolor.
NaturalRequest(image) == MkRequest(image.w, image.h, NoColor)

\* C22: for a request whose box equals the size of the slot's decoded image
\* and that has no recolor, preparing the frame returns the slot's original
\* itself (a copy of the QImage, which shares its buffer) and the slot is
\* left as it was: no prepared image is created or modified. So it was in
\* the last paint of the player, if that was such a request.
C22_IdentityAtNaturalSize ==
    /\ \A i \in Slots, use \in BOOLEAN :
        LET original == state.frames[i].original
            frame == [state.frames[i] EXCEPT
                        !.request = NaturalRequest(original)]
            r == PrepareFrameByRequest(frame, use)
        IN  ~original.isNull =>
                /\ ReturnsOriginal(frame, r)
                /\ r.frame = frame
    /\ (/\ Painted
        /\ lastPaint.request = NaturalRequest(lastPaint.before.original)) =>
            /\ lastPaint.returned = "original"
            /\ lastPaint.image = lastPaint.before.original
            /\ ~lastPaint.computed

\* C22 witness: the player painted a 2 x 2 frame with the box 2 x 2 and no
\* recolor, got the original, and the slot still has no prepared image.
C22_Witness ==
    /\ Painted
    /\ lastPaint.request = MkRequest(2, 2, NoColor)
    /\ lastPaint.before.original = MkImage(MkSize(2, 2), 1, NoColor)
    /\ lastPaint.before.request # lastPaint.request
    /\ lastPaint.returned = "original"
    /\ lastPaint.image = lastPaint.before.original
    /\ state.frames[lastPaint.slot].prepared.isNull

\* A step in which the player paints.
PaintStep == lastPaint'.count = lastPaint.count + 1

\* C23: when the player's paint needs a derived image (the original is not
\* good for the request), the image returned is the original resized and
\* recolored for that request and it is the one stored in the slot's
\* prepared field; a paint with the request the slot already has reuses the
\* stored image, computing nothing and leaving the slot as it was; and a
\* paint computes the image only if its request differs from the slot's or
\* the slot has no prepared image yet.
C23_PreparedReused ==
    [][PaintStep =>
        LET paint == lastPaint'
            before == paint.before
            needed == ~GoodForRequest(before.original, paint.request)
        IN  /\ state'.frames[paint.slot].original = before.original
            /\ state'.frames[paint.slot].request = paint.request
            /\ needed =>
                /\ paint.returned = "prepared"
                /\ state'.frames[paint.slot].prepared = paint.image
                /\ paint.image = PrepareByRequest(before.original,
                                                  paint.request, NullImage)
                /\ (/\ paint.request = before.request
                    /\ ~before.prepared.isNull) =>
                        /\ ~paint.computed
                        /\ paint.image = before.prepared
                        /\ state'.frames[paint.slot] = before
                /\ paint.computed =>
                        \/ paint.request # before.request
                        \/ before.prepared.isNull
            /\ ~needed => ~paint.computed]_vars

\* C23 witness: the second of two paints with the same request, which needs
\* a derived image, was served from the slot's prepared field.
C23_Witness ==
    /\ lastPaint.count = 2
    /\ lastPaint.request = MkRequest(2, 5, "red")
    /\ lastPaint.before.request = lastPaint.request
    /\ lastPaint.returned = "prepared"
    /\ ~lastPaint.computed
    /\ lastPaint.image = lastPaint.before.prepared
    /\ state.frames[lastPaint.slot].prepared = lastPaint.image

----------------------------------------------------------------------------
(* Who writes the slots, in the interleaved runs.                          *)

\* A step of the renderer inside renderNextFrame, and a step in which a
\* consumer call works on the slots.
BgStep == bg' # bg
CsStep == cs.pc = "access" /\ cs'.pc = "idle"

\* The slots a step changes, and the fields it changes in slot i.
WrittenSlots == {i \in Slots : state'.frames[i] # state.frames[i]}
WrittenFields(i) ==
    {field \in DOMAIN InitialFrame :
        state'.frames[i][field] # state.frames[i][field]}

\* C24 as claimed: every slot is written by the renderer only, and a
\* consumer call writes no field of any slot.
C24_Claimed ==
    [][/\ WrittenSlots # {} => BgStep
       /\ CsStep => WrittenSlots = {}]_vars

\* C24 amended: the image, the prepared image, the request and the index of
\* every slot are written by the renderer only, inside renderNextFrame. The
\* consumer's calls write two fields, and only of the slot awaiting
\* promotion at the odd counter the call has loaded: markFrameDisplayed
\* writes displayed when it is still unknown, and addTimelineDelay writes
\* display when displayed is still unknown. Every other slot and field is
\* only read by the consumer, and the renderer is not writing the slot the
\* consumer writes.
C24_SlotWriters ==
    [][WrittenSlots # {} =>
        \/ /\ BgStep
           /\ ~CsStep
           /\ bg.pc \in {"write", "display"}
           /\ WrittenSlots = {bg.slot}
        \/ /\ CsStep
           /\ ~BgStep
           /\ cs.c \in OddCounters
           /\ WrittenSlots = {nextIndex(cs.c)}
           /\ nextIndex(cs.c) \notin BgWriteSlots
           /\ state.frames[nextIndex(cs.c)].displayed = kTimeUnknown
           /\ \/ /\ cs.op = "markFrameDisplayed"
                 /\ WrittenFields(nextIndex(cs.c)) = {"displayed"}
              \/ /\ cs.op = "addTimelineDelay"
                 /\ WrittenFields(nextIndex(cs.c)) = {"display"}]_vars

\* C24 witness: the consumer has delayed the timeline and marked the pending
\* frame, whose display time and displayed mark it wrote, while the renderer
\* is in the middle of writing another slot.
C24_Witness ==
    /\ ~fatal
    /\ state.counter \in OddCounters
    /\ state.started = 0
    /\ state.delay = 1
    /\ PendingFrame(state).displayed = 5
    /\ PendingFrame(state).display =
           countFrameDisplayTime(state, PendingFrame(state).index)
    /\ bg.pc = "write"
    /\ bg.slot # nextIndex(state.counter)

----------------------------------------------------------------------------
(* The timeline delay.                                                     *)

\* A step in which addTimelineDelay with a non-zero argument has returned.
DelayStep ==
    /\ initialized(state)
    /\ state'.counter = state.counter
    /\ \/ state'.delay # state.delay
       \/ state'.skippedFrames # state.skippedFrames

\* The display time of the frame `index` for the given timeline values.
DisplayTimeFor(started, delay, skipped, index, rate) ==
    started + delay + CDiv(1000 * (skipped + index), rate)

\* C25 as claimed: addTimelineDelay(delayed, skippedFrames) at an odd counter
\* shifts the display time of a pending frame that is not displayed by
\* delayed, and leaves it unchanged if the frame is displayed.
C25_Claimed ==
    [][DelayStep =>
        LET index == nextIndex(state.counter)
            delayed == state'.delay - state.delay
        IN  state'.frames[index].display =
                IF state.frames[index].displayed = kTimeUnknown
                THEN state.frames[index].display + delayed
                ELSE state.frames[index].display]_vars

\* C25 amended: addTimelineDelay(delayed, skippedFrames) at an odd counter
\* adds its arguments to the delay and to the skipped frames and changes
\* nothing else but the display time of the pending slot: if that frame is
\* not displayed yet its display time is recomputed from the accumulated
\* values, which shifts it by delayed plus the time of the frames skipped,
\* and if it is displayed already it is left unchanged. Every frame promoted
\* afterwards gets the display time of its index for the accumulated delay
\* and skipped frames.
C25_DelayRecount ==
    /\ [](PendingNotDisplayed =>
            PendingFrame(state).display =
                DisplayTimeFor(state.started, state.delay,
                               state.skippedFrames,
                               PendingFrame(state).index, state.frameRate))
    /\ [][DelayStep =>
            LET index == nextIndex(state.counter)
                frame == state.frames[index]
                delayed == state'.delay - state.delay
                skipped == state'.skippedFrames - state.skippedFrames
                shift ==
                    CDiv(1000 * (state.skippedFrames + skipped + frame.index),
                         state.frameRate)
                    - CDiv(1000 * (state.skippedFrames + frame.index),
                           state.frameRate)
            IN  /\ state.counter \in OddCounters
                /\ delayed >= 0 /\ skipped >= 0
                /\ state' =
                     [state EXCEPT
                        !.delay = @ + delayed,
                        !.skippedFrames = @ + skipped,
                        !.frames[index].display =
                            IF frame.displayed = kTimeUnknown
                            THEN frame.display + delayed + shift
                            ELSE frame.display]]_vars

\* C25 witness: the timeline was delayed and a frame skipped while the
\* pending frame was displayed already, so that its display time is the one
\* of the timeline before the call; the frames promoted before it were
\* scheduled without the delay.
C25_Witness ==
    /\ Running
    /\ state.counter \in OddCounters
    /\ state.started = 0
    /\ state.delay = 1
    /\ state.skippedFrames = 1
    /\ PendingFrame(state).displayed # kTimeUnknown
    /\ PendingFrame(state).index >= 2
    /\ PendingFrame(state).display =
           DisplayTimeFor(0, 0, 0, PendingFrame(state).index,
                          state.frameRate)

----------------------------------------------------------------------------
\* C26 as claimed: nextFrameDisplayTime returns kTimeUnknown exactly when the
\* counter is even, and at every odd counter the display time of the slot
\* awaiting promotion.
C26_Claimed ==
    Running =>
        LET r == nextFrameDisplayTime(state)
        IN  /\ (r.time = kTimeUnknown) = (state.counter \in EvenCounters)
            /\ state.counter \in OddCounters =>
                  r.time = PendingFrame(state).display

\* C26 amended: nextFrameDisplayTime returns kTimeUnknown exactly when the
\* counter is even; at an odd counter it returns the display time of the
\* slot awaiting promotion while that slot is not displayed, and
\* kFrameDisplayTimeAlreadyDone, whatever the display time, once the slot is
\* displayed.
C26_NextFrameDisplayTime ==
    Running =>
        LET r == nextFrameDisplayTime(state)
            c == state.counter
            frame == state.frames[((c + 1) % 8) \div 2]
        IN  /\ ~r.fatal
            /\ (r.time = kTimeUnknown) = (c % 2 = 0)
            /\ (c % 2 = 1 /\ frame.displayed = kTimeUnknown) =>
                  /\ r.time = frame.display
                  /\ r.time # kFrameDisplayTimeAlreadyDone
            /\ (c % 2 = 1 /\ frame.displayed # kTimeUnknown) =>
                  /\ r.time = kFrameDisplayTimeAlreadyDone
                  /\ r.time # frame.display

\* C26 witness: a poll returned the display time of the pending frame, the
\* frame was then marked displayed, and a poll now returns
\* kFrameDisplayTimeAlreadyDone.
C26_Witness ==
    /\ Running
    /\ state.counter \in OddCounters
    /\ lastPoll.hasReal
    /\ lastPoll.real = PendingFrame(state).display
    /\ PendingFrame(state).displayed # kTimeUnknown
    /\ nextFrameDisplayTime(state).time = kFrameDisplayTimeAlreadyDone

----------------------------------------------------------------------------
\* C27: a slot whose displayed field is set keeps that value as long as the
\* consumer can reach the slot, as the one frameForPaint returns or as the
\* pending one: the field changes only when the renderer renders anew into
\* the slot, which resets it to kTimeUnknown, and the renderer does so only
\* when the slot can no longer be reached through the counter, nor through
\* the counter a consumer call in progress has loaded.
C27_DisplayedKept ==
    [][\A i \in Slots :
        (/\ state.frames[i].displayed # kTimeUnknown
         /\ state'.frames[i].displayed # state.frames[i].displayed) =>
            /\ bg.pc = "write"
            /\ bg.slot = i
            /\ cs' = cs
            /\ state'.frames[i].displayed = kTimeUnknown
            /\ state'.frames[i].index > state.frames[i].index
            /\ i \notin ReachableSlots(state.counter)
            /\ cs.pc = "access" => i \notin ReachableSlots(cs.c)]_vars

\* C27 witness: slot 1, which the consumer had marked displayed and shown,
\* has been rendered into again and its mark is reset, while the slots shown
\* after it still hold the consumer's marks.
C27_Witness ==
    /\ ~fatal
    /\ state.frames[1].index = 5
    /\ state.frames[1].displayed = kTimeUnknown
    /\ state.frames[2].displayed \in NowSet
    /\ state.frames[3].displayed \in NowSet
    /\ state.frames[0].displayed \in NowSet

----------------------------------------------------------------------------
\* C28: start(owner, started, delay, skippedFrames) stores its four
\* arguments and sets the counter to 0, so that the state is initialized; it
\* changes no slot, not the frame index and nothing else. This holds of the
\* call the player makes on the constructed state and of a call on any state
\* reached later.
C28_Start ==
    /\ [](\A owner \in Owners, a \in StartArgs :
            LET r == start(state, owner, a[1], a[2], a[3])
            IN  /\ r.owner = owner
                /\ r.started = a[1]
                /\ r.delay = a[2]
                /\ r.skippedFrames = a[3]
                /\ r.counter = 0
                /\ initialized(r)
                /\ r.frames = state.frames
                /\ r.frameIndex = state.frameIndex
                /\ [r EXCEPT !.owner = state.owner,
                             !.started = state.started,
                             !.delay = state.delay,
                             !.skippedFrames = state.skippedFrames,
                             !.counter = state.counter] = state)
    /\ [][(~initialized(state) /\ initialized(state')) =>
            /\ state'.counter = 0
            /\ state'.frames = state.frames
            /\ state'.frameIndex = state.frameIndex
            /\ \E owner \in Owners, a \in StartArgs :
                  /\ state'.owner = owner
                  /\ state'.started = a[1]
                  /\ state'.delay = a[2]
                  /\ state'.skippedFrames = a[3]]_vars

\* C28 witness: a state started at 7 with a delay of 1 and one skipped frame,
\* on which nothing else was called: slot 0 holds the cover frame and the
\* other slots are as constructed.
C28_Witness ==
    /\ ~fatal
    /\ state.counter = 0
    /\ state.owner = "player"
    /\ state.started = 7
    /\ state.delay = 1
    /\ state.skippedFrames = 1
    /\ state.frameIndex = 0
    /\ ~state.frames[0].original.isNull
    /\ \A i \in Slots \ {0} : state.frames[i] = InitialFrame

----------------------------------------------------------------------------
\* C29: on a started state the counter is one of 0 .. 7, so that no switch
\* over it falls through, and so is the value a call in progress has loaded;
\* every change of the counter is from c to (c + 1) mod 8: from an even c it
\* is the store of renderNextFrame, which loaded that same c, and from an
\* odd c it is the store of markFrameShown, which loaded that same c, so
\* that the two threads never store from the same phase.
C29_CounterSteps ==
    /\ [](initialized(state) =>
            /\ state.counter \in 0 .. 7
            /\ renderCase(state.counter).index \in Slots
            /\ ~nextFrameDisplayTime(state).fatal
            /\ ~markFrameShown(state).fatal
            /\ bg.pc # "idle" => bg.c \in 0 .. 7
            /\ cs.pc = "access" => cs.c \in 0 .. 7
            /\ bg.pc = "store" =>
                  /\ bg.c = state.counter
                  /\ bg.c % 2 = 0
                  /\ ~(cs.pc = "access" /\ cs.op = "markFrameShown"
                       /\ markFrameShownAt(state, cs.c).shown))
    /\ [][(initialized(state) /\ state'.counter # state.counter) =>
            LET c == state.counter
            IN  /\ state'.counter = (c + 1) % 8
                /\ c % 2 = 0 =>
                      /\ bg.pc = "store"
                      /\ bg.c = c
                      /\ bg'.pc = "idle"
                      /\ cs' = cs
                /\ c % 2 = 1 =>
                      /\ cs.pc = "access"
                      /\ cs.op = "markFrameShown"
                      /\ cs.c = c
                      /\ cs'.pc = "idle"
                      /\ bg' = bg]_vars

\* C29 witness: the counter has gone round from 7 to 0 and the renderer is
\* about to store 1 again, while a consumer call that loaded the counter 0
\* is in progress.
C29_Witness ==
    /\ ~fatal
    /\ state.counter = 0
    /\ state.frames[0].index = 4
    /\ bg.pc = "store"
    /\ bg.c = 0
    /\ cs.pc = "access"
    /\ cs.op = "markFrameShown"
    /\ cs.c = 0

----------------------------------------------------------------------------
\* The slot awaiting promotion at the odd counter c holds a frame rendered
\* in full and a display time.
PendingReady(c) ==
    LET frame == state.frames[((c + 1) % 8) \div 2]
    IN  /\ ~frame.original.isNull
        /\ frame.index > 0
        /\ frame.original.frame = frame.index % state.framesCount
        /\ frame.display # kTimeUnknown
        /\ ~nextFrameDisplayTimeAt(state, c).fatal
        /\ \A delayed \in DelaySet, skippedFrames \in SkipSet :
              ~addTimelineDelayAt(state, c, delayed, skippedFrames).fatal

\* C30: at every counter value c of a valid state the slot frameForPaint
\* returns is c / 2, and at every odd counter of a started state the slot
\* ((c + 1) mod 8) / 2 awaiting promotion holds a rendered frame and a
\* display time that is not kTimeUnknown, so that no assertion of
\* nextFrameDisplayTime or of addTimelineDelay fails; the same holds for the
\* counter value a consumer call in progress has loaded.
C30_SlotsOfTheCounter ==
    isValid(state) =>
        /\ ~frameForPaint(state).fatal
        /\ frameForPaint(state).slot = CDiv(state.counter, 2)
        /\ frameForPaint(state).slot =
              IF initialized(state) THEN state.counter \div 2 ELSE 0
        /\ state.counter \in OddCounters => PendingReady(state.counter)
        /\ (cs.pc = "access" /\ initialized(state)) =>
              /\ ~frameForPaintAt(state, cs.c).fatal
              /\ frameForPaintAt(state, cs.c).slot = cs.c \div 2
              /\ cs.c \in OddCounters =>
                    cs.c = state.counter /\ PendingReady(cs.c)

\* C30 witness: the ring has gone round; at the counter 7 the pending slot 0
\* holds the frame 4 with its display time and is not displayed yet, and an
\* addTimelineDelay call that loaded this counter is in progress while the
\* renderer is writing a slot.
C30_Witness ==
    /\ ~fatal
    /\ state.counter = 7
    /\ state.frames[0].index = 4
    /\ state.frames[0].displayed = kTimeUnknown
    /\ state.frames[0].display # kTimeUnknown
    /\ cs.pc = "access"
    /\ cs.op = "addTimelineDelay"
    /\ cs.a1 = 1
    /\ cs.c = 7
    /\ bg.pc = "write"

----------------------------------------------------------------------------
\* The targets of the switch of renderNextFrame for the counters 0 .. 7.
TargetTable == <<1, 2, 2, 3, 3, 0, 0, 1>>

\* C31 as claimed: at every counter c the slot renderNextFrame renders into
\* is the presented slot c / 2 plus one, modulo the number of slots.
C31_Claimed ==
    [][Running =>
        /\ renderCase(state.counter).index =
               ((state.counter \div 2) + 1) % kFramesCount
        /\ RenderedInStep \subseteq
               {((state.counter \div 2) + 1) % kFramesCount}]_vars

\* C31 amended: the table 1, 2, 2, 3, 3, 0, 0, 1 is the slot after
\* (c + 1) / 2, modulo the number of slots. At an even counter c that is the
\* slot after the presented slot c / 2, which renderNextFrame promotes; at
\* an odd counter it is the second slot after the presented one, the slot
\* after the one awaiting promotion, and renderNextFrame renders into it or,
\* when it is rendered already, into the slot after it. The presented slot
\* and, at an odd counter, the slot awaiting promotion are never rendered
\* into.
C31_TargetTable ==
    [][Running =>
        LET c == state.counter
            shown == c \div 2
            case == renderCase(c)
        IN  /\ case.index = TargetTable[c + 1]
            /\ case.index = (((c + 1) \div 2) + 1) % kFramesCount
            /\ case.present = (c % 2 = 0)
            /\ c % 2 = 0 =>
                  /\ case.index = (shown + 1) % kFramesCount
                  /\ RenderedInStep \subseteq {(shown + 1) % kFramesCount}
            /\ c % 2 = 1 =>
                  /\ case.index = (shown + 2) % kFramesCount
                  /\ RenderedInStep \subseteq
                        {(shown + 2) % kFramesCount,
                         (shown + 3) % kFramesCount}
                  /\ (shown + 3) % kFramesCount \in RenderedInStep =>
                        IsRendered(state.frames[(shown + 2) % kFramesCount])
            /\ shown \notin RenderedInStep]_vars

\* C31 witness: at the counter 5 the renderer has rendered into slot 0, the
\* second slot after the presented slot 2, and not yet into slot 1.
C31_Witness ==
    /\ Running
    /\ state.counter = 5
    /\ state.frames[3].index = 3
    /\ state.frames[0].index = 4
    /\ IsRendered(state.frames[0])
    /\ state.frames[1].index = 1
    /\ ~IsRendered(state.frames[1])

----------------------------------------------------------------------------
\* C32: the display time of a slot is written by the renderer only in
\* present, for the slot it promotes and before it stores the counter, and
\* it is started + delay + 1000 * (skippedFrames + index) / frameRate in
\* integer division for the delay and the skipped frames of that moment,
\* which are still the current ones when the counter is stored; rendering
\* into a slot leaves its display time as it was.
C32_DisplayAtPromotion ==
    /\ [](bg.pc = "store" =>
            /\ state.counter = bg.c
            /\ state.frames[bg.slot].display =
                  state.started + state.delay
                  + (1000 * (state.skippedFrames
                             + state.frames[bg.slot].index))
                        \div state.frameRate)
    /\ [][BgStep =>
            /\ bg.pc = "write" =>
                  /\ \A i \in Slots :
                        state'.frames[i].display = state.frames[i].display
                  /\ state'.frames[bg.slot].index = state'.frameIndex
            /\ bg.pc = "display" =>
                  /\ renderCase(bg.c).present
                  /\ state'.counter = state.counter
                  /\ state' = [state EXCEPT !.frames[bg.slot].display =
                        DisplayTimeFor(state.started, state.delay,
                                       state.skippedFrames,
                                       state.frames[bg.slot].index,
                                       state.frameRate)]
            /\ bg.pc \notin {"write", "display"} =>
                  \A i \in Slots :
                        state'.frames[i].display = state.frames[i].display
            /\ state'.counter # state.counter =>
                  /\ bg.pc = "store"
                  /\ nextIndex(state'.counter) = bg.slot
                  /\ state'.frames = state.frames]_vars

\* C32 witness: started at 7 with a delay of 1 and one skipped frame, the
\* renderer has written the display time of the frame 2 it promotes and is
\* about to store the counter, while the frame 3, which it prerendered
\* before, has no display time.
C32_Witness ==
    /\ ~fatal
    /\ bg.pc = "store"
    /\ state.started = 7
    /\ state.delay = 1
    /\ state.skippedFrames = 1
    /\ state.frames[bg.slot].index = 2
    /\ state.frames[bg.slot].display
          = 8 + (1000 * 3) \div state.frameRate
    /\ state.frames[3].index = 3
    /\ IsRendered(state.frames[3])
    /\ state.frames[3].display = kTimeUnknown

----------------------------------------------------------------------------
\* A markFrameShown call of the consumer that moves the counter.
ShownStep ==
    /\ CsStep
    /\ cs.op = "markFrameShown"
    /\ state'.counter # state.counter

\* C33: frames reach the consumer in render order, none skipped and none
\* repeated, under every interleaving: a markFrameShown that succeeds makes
\* frameForPaint return a slot whose frame index is one more than that of
\* the slot it returned before; the slots are rendered in ring order (the
\* frame n is in the slot n mod kFramesCount), and present renders its slot
\* only if the slot is not rendered already.
C33_RenderOrder ==
    /\ [](\A i \in Slots :
            state.frames[i].index # 0 =>
                state.frames[i].index % kFramesCount = i)
    /\ [][ShownStep =>
            /\ ~frameForPaint(state).fatal
            /\ ~frameForPaint(state').fatal
            /\ frameForPaint(state').slot
                  = (frameForPaint(state).slot + 1) % kFramesCount
            /\ state'.frames[frameForPaint(state').slot].index
                  = state.frames[frameForPaint(state).slot].index + 1]_vars
    /\ [][BgStep /\ bg.pc = "write" =>
            /\ ~IsRendered(state.frames[bg.slot])
            /\ bg.slot = state'.frameIndex % kFramesCount
            /\ state'.frames[bg.slot].index = state.frameIndex + 1]_vars
    /\ [][BgStep /\ bg.pc = "check" /\ renderCase(bg.c).present =>
            (bg'.pc = "write") = ~IsRendered(state.frames[bg'.slot])]_vars

\* C33 witness: markFrameShown has moved the counter to 2 in the second
\* round of the ring, and frameForPaint returns the frame 5 in the slot 1,
\* after the frame 4 in the slot 0.
C33_Witness ==
    /\ ~fatal
    /\ state.counter = 2
    /\ cs.pc = "idle"
    /\ ~frameForPaint(state).fatal
    /\ frameForPaint(state).slot = 1
    /\ state.frames[1].index = 5
    /\ state.frames[0].index = 4

----------------------------------------------------------------------------
\* The slots that are rendered and not displayed yet.
RenderedSlots(s) == {i \in Slots : IsRendered(s.frames[i])}

\* The slots after the one frameForPaint returns: the pending slot and the
\* two look-ahead slots.
AheadSlots(c) == {(CDiv(c, 2) + d) % kFramesCount : d \in 1 .. 3}

\* C34: the look-ahead is bounded. renderNextFrame never renders into the
\* slot counter / 2 that frameForPaint returns; at most three slots are
\* rendered and not displayed yet, the pending slot and the two slots after
\* it; and at an odd counter with both look-ahead slots rendered
\* renderNextFrame returns rendered = false and changes nothing.
C34_BoundedLookAhead ==
    /\ [](/\ Cardinality(RenderedSlots(state)) <= 3
          /\ RenderedSlots(state) \subseteq AheadSlots(state.counter)
          /\ ~IsRendered(state.frames[CDiv(state.counter, 2)]))
    /\ [][CDiv(state.counter, 2) \notin RenderedInStep]_vars
    /\ [](state.counter \in OddCounters
          /\ IsRendered(state.frames[(nextIndex(state.counter) + 1)
                                        % kFramesCount])
          /\ IsRendered(state.frames[(nextIndex(state.counter) + 2)
                                        % kFramesCount])
          => \A request \in Requests :
                /\ ~renderNextFrame(state, request).rendered
                /\ ~renderNextFrame(state, request).fatal
                /\ renderNextFrame(state, request).notify = NoOwner
                /\ renderNextFrame(state, request).s = state)

\* C34 witness: at the counter 3 the pending slot 2 and the look-ahead
\* slots 3 and 0 are all rendered and not displayed, and the slot 1 that
\* frameForPaint returns is not.
C34_Witness ==
    /\ Running
    /\ state.counter = 3
    /\ RenderedSlots(state) = {2, 3, 0}
    /\ state.frames[0].index = 4
    /\ ~renderNextFrame(state, EntryRequest(state)).rendered

----------------------------------------------------------------------------
\* The states in _entries, in registration order.
EntryStates(r) == [i \in 1 .. Len(r.entries) |-> r.entries[i].state]

\* C35: a generation pass calls renderNextFrame exactly once on every entry
\* registered when it runs, in registration order and with the request the
\* entry holds then, whatever the calls on the other entries returned: the
\* calls it made are one per entry in the order of _entries, each state is
\* left as one renderNextFrame call with the entry's request leaves it, each
\* call returned what that one call returns, and the states that are not
\* registered and the entries themselves are untouched.
C35_PassVisitsEveryEntryOnce ==
    [][PassStep =>
        /\ NoDuplicates(EntryStates(renderer))
        /\ [i \in 1 .. Len(last'.log) |-> last'.log[i].entry]
              = EntryStates(renderer)
        /\ \A i \in 1 .. Len(renderer.entries) :
              LET entry == renderer.entries[i]
                  result == renderNextFrame(states[entry.state],
                                            entry.request)
              IN  /\ states'[entry.state] = result.s
                  /\ last'.log[i].rendered = result.rendered
                  /\ last'.log[i].promoted = (result.notify # NoOwner)
                  /\ last'.log[i].request = entry.request
        /\ \A id \in Ids : ~Registered(id) => states'[id] = states[id]
        /\ renderer'.entries = renderer.entries
        /\ last'.rendered
              = (\E i \in 1 .. Len(renderer.entries) :
                    renderNextFrame(states[renderer.entries[i].state],
                                    renderer.entries[i].request).rendered)
      ]_vars

\* C35 witness: a pass over two entries found nothing to render for the
\* first and rendered a frame of the second, each with its own request.
C35_Witness ==
    /\ ~fatal
    /\ last.op = "generateFrames"
    /\ Len(last.log) = 2
    /\ Len(renderer.entries) = 2
    /\ ~last.log[1].rendered
    /\ last.log[2].rendered
    /\ last.log[1].request # last.log[2].request
    /\ states[last.log[2].entry].frameIndex >= 2

----------------------------------------------------------------------------
----------------------------------------------------------------------------
\* The frame renderFrame is asked for when renderNextFrame renders.
NextFrame(s) == (s.frameIndex + 1) % s.framesCount

\* C37: renderFrame with a cache. If the cache serves the frame, the decoder
\* is not invoked and nothing is appended to the cache; otherwise the
\* decoder renders the frame and the frame is appended; the decoder handle
\* is released as soon as the cache then reports framesReady = framesCount;
\* and on a miss with no decoder the decoder is first created from the
\* content.
C37_RenderFrameWithCache ==
    [][\A i \in RenderedInStep :
        state.cache.exists =>
            LET request == state'.frames[i].request
                index == NextFrame(state)
                calls == renderFrameCalls(state, request, index)
            IN  IF CacheRenderFrame(state.cache, request, index)
                THEN /\ calls = <<"cache.renderFrame">>
                     /\ state'.cache = state.cache
                     /\ state'.animation = state.animation
                ELSE /\ calls[1] = "cache.renderFrame"
                     /\ state.animation <=> calls[2] = "renderSync"
                     /\ ~state.animation <=>
                           /\ calls[2] = "CreateFromContent"
                           /\ calls[3] = "renderSync"
                     /\ \E k \in 2 .. Len(calls) - 1 :
                           /\ calls[k] = "renderSync"
                           /\ calls[k + 1] = "cache.appendFrame"
                     /\ state'.cache
                           = CacheAppendFrame(state.cache, request, index)
                     /\ state'.cache.framesReady
                           = state.cache.framesReady + 1
                     /\ state'.animation <=>
                           state'.cache.framesReady
                                # state'.cache.framesCount
                     /\ ~state'.animation <=>
                           calls[Len(calls)] = "animation = nullptr"
      ]_vars

\* C37 witness: a state made from a cache that held the first frame only,
\* with no decoder: the decoder was created for the frames 1 and 2, released
\* when the cache had its three frames, and the next frame was served by the
\* cache.
C37_Witness ==
    /\ ~fatal
    /\ state.cache.exists
    /\ state.cache.inits = 0
    /\ state.cache.framesCount = 3
    /\ state.cache.framesReady = 3
    /\ ~state.animation
    /\ state.frameIndex = 3
    /\ \E i \in Slots : /\ state.frames[i].index = 3
                        /\ state.frames[i].original.frame = 0

----------------------------------------------------------------------------
\* The values the counter takes, the uninitialized one included.
CounterValues == {kCounterUninitialized} \cup OddCounters \cup EvenCounters

\* C38: addTimelineDelay(0, 0) is a no-op in every phase, at the even
\* counters and in a state never started too: it changes neither the delay,
\* the skipped frames, the counter nor a slot and fails no assertion, where
\* a call with a delay or skipped frames is fatal at every counter that is
\* not odd.
C38_ZeroDelayNoOp ==
    /\ addTimelineDelay(state, 0, 0) = [s |-> state, fatal |-> FALSE]
    /\ \A c \in CounterValues :
          /\ addTimelineDelayAt(state, c, 0, 0)
                = [s |-> state, fatal |-> FALSE]
          /\ c \notin OddCounters =>
                \A delayed \in DelaySet, skippedFrames \in SkipSet :
                    delayed # 0 \/ skippedFrames # 0 =>
                        addTimelineDelayAt(state, c, delayed,
                                           skippedFrames).fatal

\* C38 witness: at the counter 2, after a delay was added at the counter 1,
\* the call with (0, 0) changes nothing and is not fatal, and the call with
\* (0, 1) is fatal.
C38_Witness ==
    /\ Running
    /\ state.counter = 2
    /\ state.started = 0
    /\ state.delay = 1
    /\ addTimelineDelay(state, 0, 0).s = state
    /\ ~addTimelineDelay(state, 0, 0).fatal
    /\ addTimelineDelay(state, 0, 1).fatal

----------------------------------------------------------------------------
\* The state the constructor leaves for the arguments a.
Built(a) == construct(a.source, a.hasAnimation, a.cache, a.request)

\* The cache supplies a first frame.
SuppliesCover(cache) == cache.exists /\ ~cache.firstFrame.isNull

\* C39: the construction of a valid state. If the cache supplies a first
\* frame, it becomes the image of slot 0 and neither cache.init nor a render
\* is performed (the cache keeps its frames and the decoder is as given);
\* otherwise cache.init is called once, if there is a cache, and the frame 0
\* is rendered into slot 0; in both cases slot 0 records the construction
\* request and the counter stays uninitialized. A state that was not
\* started is as its constructor left it; the arguments are gone through for
\* those states.
C39_Construct ==
    /\ ~initialized(state) => \E a \in ConstructArgs : state = Built(a)
    /\ ~initialized(state) => \A a \in ConstructArgs :
          LET s == Built(a)
          IN  isValid(s) =>
                /\ s.frames[0].request = a.request
                /\ s.counter = kCounterUninitialized
                /\ s.frameIndex = 0
                /\ s.frames[0].index = 0
                /\ \A i \in Slots \ {0} : s.frames[i] = InitialFrame
                /\ IF SuppliesCover(a.cache)
                   THEN /\ s.frames[0].original = a.cache.firstFrame
                        /\ s.cache.inits = a.cache.inits
                        /\ s.cache.framesReady = a.cache.framesReady
                        /\ s.cache.framesCount = a.cache.framesCount
                        /\ s.animation = a.hasAnimation
                   ELSE /\ ~s.frames[0].original.isNull
                        /\ s.frames[0].original.frame = 0
                        /\ ImageSize(s.frames[0].original)
                              = (IF SizeIsEmpty(a.request.box) THEN s.size
                                 ELSE RequestSize(a.request, s.size))
                        /\ a.cache.exists =>
                              /\ s.cache.inits = a.cache.inits + 1
                              /\ s.cache.framesCount = s.framesCount
                              /\ s.cache.framesReady = 1
                        /\ ~a.cache.exists => s.cache = NoCache /\ s.animation
                        /\ a.cache.exists =>
                              (s.animation <=>
                                  s.cache.framesReady # s.cache.framesCount)

\* C39 witness: a valid state, not started, made from a cache that supplied
\* the first frame, with no decoder: slot 0 holds that frame and the
\* request, and the cache was not initialized.
C39_Witness ==
    /\ ~fatal
    /\ isValid(state)
    /\ ~initialized(state)
    /\ state = Built([source |-> ValidSource, hasAnimation |-> FALSE,
                      cache |-> PartialCache, request |-> EmptyRequest])
    /\ state.frames[0].original = PartialCache.firstFrame
    /\ state.cache.inits = 0
    /\ ~state.animation

----------------------------------------------------------------------------
\* Reports of an animation or a cache at and around the limits: widths,
\* heights, frame rates in hundredths and numbers of frames.
Reports ==
    {MkSource(w, h, rate100, count) :
        w \in {0, 1, kMaxSize - 1, kMaxSize},
        h \in {0, 2, kMaxSize},
        rate100 \in {0, 99, 100, 199, kMaxFrameRate * 100,
                     kMaxFrameRate * 100 + 1},
        count \in {0, 1, kMaxFramesCount, kMaxFramesCount + 1}}
    \cup Sources

\* The properties are what calculateProperties makes of the report.
PropertiesOf(s, source) ==
    /\ s.size = calculateProperties(source).size
    /\ s.frameRate = calculateProperties(source).frameRate
    /\ s.framesCount = calculateProperties(source).framesCount

\* C40: calculateProperties maps every report to a value in range or to 0:
\* a width and a height are kept only if 0 < v < kMaxSize, a frame rate only
\* if 1 <= rate <= kMaxFrameRate, cut to an integer, a number of frames only
\* if 0 < count <= kMaxFramesCount; a component out of range becomes 0 and
\* makes the state invalid. The properties of a state are those its
\* constructor calculated; the reports are gone through for the states
\* that were not started.
C40_CalculateProperties ==
    /\ \E source \in Sources : PropertiesOf(state, source)
    /\ isValid(state) <=>
          /\ state.size.w \in 1 .. (kMaxSize - 1)
          /\ state.size.h \in 1 .. (kMaxSize - 1)
          /\ state.frameRate \in 1 .. kMaxFrameRate
          /\ state.framesCount \in 1 .. kMaxFramesCount
    /\ ~initialized(state) => \A source \in Reports :
          LET props == calculateProperties(source)
              built == construct(source, TRUE, NoCache, EmptyRequest)
              wide == source.w > 0 /\ source.w < kMaxSize
              high == source.h > 0 /\ source.h < kMaxSize
              paced == /\ source.rate100 >= 100
                       /\ source.rate100 <= 100 * kMaxFrameRate
              counted == source.count > 0 /\ source.count <= kMaxFramesCount
          IN  /\ props.size.w = (IF wide THEN source.w ELSE 0)
              /\ props.size.h = (IF high THEN source.h ELSE 0)
              /\ props.frameRate
                    = (IF paced THEN source.rate100 \div 100 ELSE 0)
              /\ paced => /\ 100 * props.frameRate <= source.rate100
                          /\ source.rate100 < 100 * (props.frameRate + 1)
              /\ props.framesCount = (IF counted THEN source.count ELSE 0)
              /\ PropertiesOf(built, source)
              /\ isValid(built) <=> (wide /\ high /\ paced /\ counted)
              /\ ~isValid(built) => information(built) = EmptyInformation

\* C40 witness: a state whose animation reported a width of kMaxSize: the
\* width is 0, the other properties are kept (30 frames per second, 3
\* frames, a height of 2), and the state is invalid.
C40_Witness ==
    /\ PropertiesOf(state, OversizeSource)
    /\ OversizeSource.w = kMaxSize
    /\ state.size = MkSize(0, 2)
    /\ state.frameRate = 30
    /\ state.framesCount = 3
    /\ ~isValid(state)
    /\ calculateProperties(SlowSource).frameRate = 1

====
